---- MODULE Spec2Model ----
(***************************************************************************)
(* Message routing core of electron-chrome-extensions: the RuntimeAPI of   *)
(* src/src/browser/api/runtime.ts (request/response correlator, port       *)
(* multiplexer, worker lifecycle tracker) together with the port objects   *)
(* of the renderer (src/src/renderer/index.ts) and of the service-worker   *)
(* polyfill (src/src/browser/sw-polyfill.ts).                              *)
(*                                                                         *)
(* Every process is a single-threaded event loop: one action is one        *)
(* callback run to completion.  IPC pipes are FIFO sequences.              *)
(***************************************************************************)
EXTENDS Integers, Sequences, FiniteSets, TLC

\* ---------------------------------------------------------------- bounds
\* Version ids the extension's service worker may run under.
MaxVersion == 2
\* Worker starts in all: first starts of a version id and restarts of one.
MaxStarts == 2
\* Requests created by sendMessage.
MaxMessages == 2

VersionIds == 1..MaxVersion
\* The version id of a service worker of an ordinary web page (https scope).
WebVersionId == MaxVersion + 1
MessageIds == 1..MaxMessages
\* Ports opened by runtime.connect.
MaxPorts == 1
\* Messages each side posts on one port.
MaxPosts == 2
PortIds == 1..MaxPorts
\* The port ids the tables of the main process have room for: the ports the
\* popup opens and uses, and one more that it opens and leaves alone.
TablePorts == 1..(MaxPorts + 1)
Bodies == 1..MaxPosts

\* `undefined`, as a response value.
Undefined == "undefined"
\* What a context may pass to sendResponse.
ResponseValues == {"r1", "r2"}

RunningStatuses == {"starting", "running", "stopping", "stopped"}

VARIABLES
    \* --- environment: the session's service workers
    status,             \* version id -> "none" or its running status
    starts,             \* version id -> how often it was started
    \* --- RuntimeAPI, worker lifecycle tracker
    registeredWorkers,  \* the keys of the registeredWorkers map
    ipcHandlers,        \* version id -> handler sets installed on sw.ipc
    lastDispatch,       \* the last event emitted on a worker's sw.ipc
    \* --- RuntimeAPI, request/response correlator
    nextMessageId,      \* randomUUID(): ids below it are used
    pendingResponses,   \* the keys of the pendingResponses map
    timeoutArmed,       \* message id -> its setTimeout is scheduled
    settleCalls,        \* message id -> the calls of resolve / reject
    sendPath,           \* message id -> where sendMessage transmitted it
    firstOutcome,       \* message id -> what arrived first (history)
    \* --- the extension
    manifestVersion,    \* 3: background service worker, 2: background page
    \* --- RuntimeAPI, port multiplexer
    ports,              \* port id -> its PortConnection, or NoPort
    connectPc,          \* port id -> where connect() stands
    \* --- the popup (initiator): its renderer and its RuntimePort objects
    popupDestroyed,     \* senderWebContents.isDestroyed()
    rpState,            \* port id -> "none", "connected" or "closed"
    rpListening,        \* port id -> ipcRenderer listeners of connectPort are on
    initPosted,         \* port id -> messages posted by the initiator
    \* --- the service worker (responder, MV3): the polyfill's activePorts
    activePorts,
    \* --- the background page (responder, MV2): backgroundPorts, BackgroundPort
    backgroundPorts,
    bpConnected,        \* port id -> BackgroundPort.connected
    respPosted,         \* port id -> messages posted by the responder
    \* --- IPC pipes, FIFO
    rendererToMain, mainToPopup, mainToWorker, workerToMain, mainToBg, bgToMain,
    \* --- history
    initRecv,           \* port id -> bodies the initiator's onMessage got
    respRecv,           \* port id -> bodies the responder's onMessage got
    lateDeliveries,     \* onMessage deliveries to a port already closed
    earlyPosts,         \* port id -> bodies posted while connect was waiting
    dropped,            \* messages the multiplexer dropped, and why
    notices,            \* port id -> disconnect notifications sent
    closed              \* port id -> which side's disconnect removed it

VARIABLES
    \* --- the session, as the ExtensionRouter sees it
    extensions,         \* the extension ids session.getExtension finds
    hostState,          \* host -> "alive", "destroying" or "destroyed"
    \* --- ExtensionRouter
    observedHosts,      \* hosts with a pending once('destroyed') callback
    listeners,          \* the listeners map: event name -> bucket
    handlers,           \* the handlers map: handler name -> handler
    handleCalls,        \* handler name -> its first callback, times handled
    \* --- history of the router
    wanted,             \* <<event name, listener>> added and not removed since
    lastRemoved,        \* what the removeListener just executed removed
    lastAdd,            \* what the addListener just executed found and did
    lastEvent,          \* the sendEvent just executed and its deliveries
    lastPrune,          \* the filterListeners just executed
    lastCall,           \* the onExtensionMessage just executed
    \* --- NativeMessagingHost of one connectNative, and its NativePort
    hostMap,            \* hostMap[connectionId] is set
    launchPc,           \* where launch() stands
    connected,          \* NativeMessagingHost.connected
    process,            \* this.process is set
    sender,             \* this.sender is set
    hostListening,      \* sender.ipc.on('crx-native-msg-<id>') is on
    pending,            \* this.pending
    child,              \* the child process: "none", "running" or "dead"
    stdin,              \* what was written to the child's stdin
    portState,          \* the NativePort: "none", "connected", "disconnected"
    nativeIpc,          \* renderer -> main, FIFO
    toRenderer,         \* '-disconnect' notifications on their way
    \* --- history of the native connection
    posted,             \* how many messages the extension posted
    spawns,             \* how often spawn() was called
    kills,              \* how often process.kill() was called
    disconnectsSent,    \* '-disconnect' notifications sent to the renderer
    destroyed,          \* destroy() was called
    descriptor,         \* the config launch() read
    executable,         \* what launch() found at config.path
    flushed             \* pending messages sent when the child was spawned

VARIABLES
    \* --- NativeMessagingHost, continued
    keepAlive,          \* this.keepAlive: false for a sendNativeMessage host
    resolveResponse,    \* this.resolveResponse is set
    request,            \* the promise sendNativeMessage returned
    \* --- history of the native connection, continued
    replies,            \* frames of the child that receive() was given
    nativeMsgs,         \* 'crx-native-msg-<id>' messages sent to the renderer
    destroyCalls,       \* how often destroy() was called
    searched            \* what launch() found at the search locations

VARIABLES
    \* --- the bytes between a NativeMessagingHost and its child
    sentJson,           \* the JSON text send() just framed
    sentFrame,          \* the buffer send() wrote for it
    childWrote,         \* frame -> payload length, as the child wrote them
    stdout,             \* bytes of the child not yet handed to receive()
    received,           \* the frames receive() passed on, in order
    receiveFailures     \* receive() calls that passed no frame on

VARIABLES
    \* --- history of the correlator, continued
    sentOn,             \* message id -> the paths sendMessage transmitted on
    resolvedBy          \* message id -> the context whose reply settled it

VARIABLES
    \* --- the objects of one extension context
    portObjects,        \* class of port -> the port object and its wiring
    listenerMap,        \* event.ts: event name -> count, 0 when absent
    ipcListeners,       \* event name -> the listeners on ipcRenderer, in order
    registered,         \* event name -> the callbacks added and not removed
    routerListening,    \* event name -> crx-add-listener sent, not yet undone
    lastDelivery,       \* the last event that reached the context (history)
    lastRemoval,        \* the removeExtensionListener just executed (history)
    swRequests          \* worker: request id -> its onMessage dispatch

workerVars == <<status, starts, registeredWorkers, ipcHandlers, lastDispatch>>
workerContext == <<activePorts, mainToWorker>>
portRest == <<manifestVersion, ports, connectPc, popupDestroyed, rpState,
              rpListening, initPosted, backgroundPorts, bpConnected, respPosted,
              rendererToMain, mainToPopup, workerToMain, mainToBg, bgToMain,
              initRecv, respRecv, lateDeliveries, earlyPosts, dropped, notices,
              closed>>
portVars == <<workerContext, portRest>>
requestVars == <<nextMessageId, pendingResponses, timeoutArmed, settleCalls,
                 sendPath, firstOutcome, sentOn, resolvedBy>>
routerVars == <<extensions, hostState, observedHosts, listeners, handlers,
                handleCalls, wanted, lastRemoved, lastAdd, lastEvent, lastPrune,
                lastCall>>
nativeVars == <<hostMap, launchPc, connected, process, sender, hostListening,
                pending, child, stdin, portState, nativeIpc, toRenderer,
                posted, spawns, kills, disconnectsSent, destroyed, descriptor,
                executable, flushed, destroyCalls, searched, keepAlive,
                resolveResponse, request, replies, nativeMsgs>>
wireVars == <<sentJson, sentFrame, childWrote, stdout, received,
              receiveFailures>>
eventVars == <<listenerMap, ipcListeners, registered, routerListening,
               lastDelivery, lastRemoval>>
objectVars == <<portObjects, eventVars, swRequests>>
otherVars == <<routerVars, nativeVars, wireVars, objectVars>>
vars == <<workerVars, requestVars, portVars, otherVars>>

\* ------------------------------------------------- worker lifecycle tracker

\* sw?.scope?.startsWith('chrome-extension://')
IsExtensionScope(versionId) == versionId \in VersionIds

\* A worker lifecycle tracker that installs on every 'starting' event.
RunningStatusChanged_NoDedupe(runningStatus, versionId) ==
    IF runningStatus = "stopped"
    THEN /\ registeredWorkers' = registeredWorkers \ {versionId}
         /\ UNCHANGED ipcHandlers
    ELSE IF runningStatus # "starting" \/ ~IsExtensionScope(versionId)
    THEN UNCHANGED <<registeredWorkers, ipcHandlers>>
    ELSE /\ registeredWorkers' = registeredWorkers \cup {versionId}
         /\ ipcHandlers' = [ipcHandlers EXCEPT ![versionId] = @ + 1]

\* The 'running-status-changed' listener of setupServiceWorkerListeners.
\* The handlers it installs with sw.ipc.on are never removed: 'stopped' only
\* forgets the registration.
RunningStatusChanged(runningStatus, versionId) ==
    IF runningStatus = "stopped"
    THEN /\ registeredWorkers' = registeredWorkers \ {versionId}
         /\ UNCHANGED ipcHandlers
    ELSE IF runningStatus # "starting"
    THEN UNCHANGED <<registeredWorkers, ipcHandlers>>
    ELSE IF versionId \in registeredWorkers
    THEN UNCHANGED <<registeredWorkers, ipcHandlers>>
    ELSE IF ~IsExtensionScope(versionId)
    THEN UNCHANGED <<registeredWorkers, ipcHandlers>>
    ELSE /\ registeredWorkers' = registeredWorkers \cup {versionId}
         /\ ipcHandlers' = [ipcHandlers EXCEPT ![versionId] = @ + 1]

\* One extension scope runs one worker at a time.
NoWorkerActive == \A v \in VersionIds : status[v] \in {"none", "stopped"}

RECURSIVE SumOver(_, _)
SumOver(f, S) ==
    IF S = {} THEN 0
    ELSE LET x == CHOOSE y \in S : TRUE IN f[x] + SumOver(f, S \ {x})

TotalStarts == SumOver(starts, VersionIds)

\* The session starts a worker: a new version id, or a stopped version again.
WorkerStarting(v) ==
    /\ manifestVersion = 3
    /\ NoWorkerActive
    /\ TotalStarts < MaxStarts
    /\ status' = [status EXCEPT ![v] = "starting"]
    /\ starts' = [starts EXCEPT ![v] = @ + 1]
    /\ RunningStatusChanged("starting", v)
    /\ UNCHANGED <<lastDispatch, requestVars, otherVars, portVars>>

\* The session reports 'starting' once more for a worker that is starting.
WorkerStartingAgain(v) ==
    /\ status[v] = "starting"
    /\ RunningStatusChanged("starting", v)
    /\ UNCHANGED <<status, starts, lastDispatch, requestVars, otherVars, portVars>>

WorkerRunning(v) ==
    /\ status[v] = "starting"
    /\ status' = [status EXCEPT ![v] = "running"]
    /\ RunningStatusChanged("running", v)
    /\ UNCHANGED <<starts, lastDispatch, requestVars, otherVars, portVars>>

WorkerStopping(v) ==
    /\ status[v] = "running"
    /\ status' = [status EXCEPT ![v] = "stopping"]
    /\ RunningStatusChanged("stopping", v)
    /\ UNCHANGED <<starts, lastDispatch, requestVars, otherVars, portVars>>

\* The worker's JavaScript context ends with it: the polyfill's activePorts
\* and whatever was on its way to the worker are gone.
WorkerStopped(v) ==
    /\ status[v] \in {"starting", "running", "stopping"}
    /\ status' = [status EXCEPT ![v] = "stopped"]
    /\ RunningStatusChanged("stopped", v)
    /\ activePorts' = {}
    /\ mainToWorker' = SelectSeq(mainToWorker, LAMBDA e : e.v # v)
    /\ UNCHANGED <<starts, lastDispatch, requestVars, otherVars, portRest>>

\* A web page's service worker changes status: the tracker ignores it.
WebWorkerStatus(s) ==
    /\ RunningStatusChanged(s, WebVersionId)
    /\ UNCHANGED <<status, starts, lastDispatch, requestVars, otherVars, portVars>>

\* ------------------------------------------------ request/response correlator

Correlator == [pending |-> pendingResponses, timer |-> timeoutArmed,
               calls |-> settleCalls]

Settle(c, messageId, call) ==
    [c EXCEPT !.calls[messageId] = Append(@, call)]

\* A response handler that forgets clearTimeout.
ResponseHandler_NoClearTimeout(c, messageId, response) ==
    IF messageId \in c.pending
    THEN Settle([c EXCEPT !.pending = @ \ {messageId}], messageId,
                [fn |-> "resolve", by |-> "reply", value |-> response])
    ELSE c

\* A response handler that resolves without looking the request up.
ResponseHandler_NoLookup(c, messageId, response) ==
    Settle([c EXCEPT !.timer[messageId] = FALSE,
                     !.pending = @ \ {messageId}], messageId,
           [fn |-> "resolve", by |-> "reply", value |-> response])

\* handler of setupResponseHandler, responseHandler of
\* setupServiceWorkerListeners (the same body).
ResponseHandler(c, messageId, response) ==
    IF messageId \in c.pending
    THEN Settle([c EXCEPT !.timer[messageId] = FALSE,
                          !.pending = @ \ {messageId}], messageId,
                [fn |-> "resolve", by |-> "reply", value |-> response])
    ELSE c

\* A timeout callback that leaves the entry in the table.
TimeoutCallback_KeepsEntry(c, messageId) ==
    Settle([c EXCEPT !.timer[messageId] = FALSE], messageId,
           [fn |-> "resolve", by |-> "timeout", value |-> Undefined])

\* A timeout callback that rejects.
TimeoutCallback_Rejects(c, messageId) ==
    Settle([c EXCEPT !.timer[messageId] = FALSE,
                     !.pending = @ \ {messageId}], messageId,
           [fn |-> "reject", by |-> "timeout", value |-> Undefined])

\* The setTimeout callback of sendMessage.
TimeoutCallback(c, messageId) ==
    Settle([c EXCEPT !.timer[messageId] = FALSE,
                     !.pending = @ \ {messageId}], messageId,
           [fn |-> "resolve", by |-> "timeout", value |-> Undefined])

\* An EventEmitter runs each of the n listeners of the channel in turn.
RECURSIVE EmitResponse(_, _, _, _)
EmitResponse(n, c, messageId, response) ==
    IF n = 0 THEN c
    ELSE EmitResponse(n - 1, ResponseHandler(c, messageId, response),
                      messageId, response)

SetCorrelator(c) ==
    /\ pendingResponses' = c.pending
    /\ timeoutArmed' = c.timer
    /\ settleCalls' = c.calls

\* History: the first of a reply reaching a listener and the timer firing.
NoteOutcome(messageId, what, heard) ==
    firstOutcome' =
        IF heard /\ messageId < nextMessageId /\ firstOutcome[messageId] = "none"
        THEN [firstOutcome EXCEPT ![messageId] = what]
        ELSE firstOutcome

\* History: the context a settling reply came from, a frame on ipcMain or a
\* worker on its sw.ipc.
NoteSource(messageId, from, heard) ==
    resolvedBy' =
        IF heard /\ messageId \in pendingResponses
        THEN [resolvedBy EXCEPT ![messageId] = from]
        ELSE resolvedBy

Transmit_OnBothPaths(paths, outcome) ==
    IF outcome = "sent" THEN paths \cup {"worker", "event"}
    ELSE paths \cup {"event"}

\* .then(serviceWorker.send).catch(router.sendEvent): the paths a request
\* has gone out on after startWorkerForScope settled.  The catch runs when
\* the start was rejected and when send threw, not after a send.
Transmit(paths, outcome) ==
    IF outcome = "sent" THEN paths \cup {"worker"}
    ELSE paths \cup {"event"}

\* sendMessage up to the call of startWorkerForScope.
SendMessage ==
    /\ nextMessageId <= MaxMessages
    /\ nextMessageId' = nextMessageId + 1
    /\ timeoutArmed' = [timeoutArmed EXCEPT ![nextMessageId] = TRUE]
    /\ pendingResponses' = pendingResponses \cup {nextMessageId}
    /\ sendPath' = [sendPath EXCEPT ![nextMessageId] = "starting"]
    /\ UNCHANGED <<settleCalls, firstOutcome, sentOn, resolvedBy, workerVars,
                   portVars, otherVars>>

\* startWorkerForScope(scope).then: serviceWorker.send('crx-runtime.onMessage')
StartWorkerThen(messageId) ==
    /\ sendPath[messageId] = "starting"
    /\ \E v \in VersionIds : status[v] = "running"
    /\ sendPath' = [sendPath EXCEPT ![messageId] = "worker"]
    /\ sentOn' = [sentOn EXCEPT ![messageId] = Transmit(@, "sent")]
    /\ UNCHANGED <<nextMessageId, pendingResponses, timeoutArmed, settleCalls,
                   firstOutcome, resolvedBy, workerVars, portVars, otherVars>>

\* startWorkerForScope(scope).then: serviceWorker.send throws, the worker
\* having stopped since; the catch of the chain runs router.sendEvent.
StartWorkerThenThrows(messageId) ==
    /\ sendPath[messageId] = "starting"
    /\ \E v \in VersionIds : status[v] \in {"stopping", "stopped"}
    /\ sendPath' = [sendPath EXCEPT ![messageId] = "event"]
    /\ sentOn' = [sentOn EXCEPT ![messageId] = Transmit(@, "sendThrew")]
    /\ UNCHANGED <<nextMessageId, pendingResponses, timeoutArmed, settleCalls,
                   firstOutcome, resolvedBy, workerVars, portVars, otherVars>>

\* startWorkerForScope(scope) is rejected: catch, router.sendEvent
StartWorkerCatch(messageId) ==
    /\ sendPath[messageId] = "starting"
    /\ sendPath' = [sendPath EXCEPT ![messageId] = "event"]
    /\ sentOn' = [sentOn EXCEPT ![messageId] = Transmit(@, "startFailed")]
    /\ UNCHANGED <<nextMessageId, pendingResponses, timeoutArmed, settleCalls,
                   firstOutcome, resolvedBy, workerVars, portVars, otherVars>>

\* A 'crx-runtime-response' arrives on ipcMain (from any frame).
ReplyOnIpcMain(messageId, response) ==
    /\ SetCorrelator(ResponseHandler(Correlator, messageId, response))
    /\ NoteOutcome(messageId, response, TRUE)
    /\ NoteSource(messageId, "frame", TRUE)
    /\ UNCHANGED <<nextMessageId, sendPath, sentOn, workerVars, portVars,
                   otherVars>>

\* A 'crx-runtime-response' arrives on the sw.ipc of a running worker.
ReplyOnWorkerIpc(v, messageId, response) ==
    /\ status[v] = "running"
    /\ SetCorrelator(EmitResponse(ipcHandlers[v], Correlator, messageId, response))
    /\ NoteOutcome(messageId, response, ipcHandlers[v] > 0)
    /\ NoteSource(messageId, "worker", ipcHandlers[v] > 0)
    /\ lastDispatch' = [versionId |-> v, start |-> starts[v],
                        handled |-> ipcHandlers[v]]
    /\ UNCHANGED <<nextMessageId, sendPath, sentOn, status, starts,
                   registeredWorkers,
                   ipcHandlers, portVars, otherVars>>

\* The 30 second timer of a request fires.
TimeoutFires(messageId) ==
    /\ timeoutArmed[messageId]
    /\ SetCorrelator(TimeoutCallback(Correlator, messageId))
    /\ NoteOutcome(messageId, "timeout", TRUE)
    /\ UNCHANGED resolvedBy
    /\ UNCHANGED <<nextMessageId, sendPath, sentOn, workerVars, portVars,
                   otherVars>>

\* ------------------------------------------------------------ port multiplexer

\* serviceWorker: undefined
NoWorker == 0
NoPort == [present |-> FALSE, serviceWorker |-> NoWorker]

\* What the handlers of the main process read and write.
MainState == [ports |-> ports, toPopup |-> mainToPopup,
              toWorker |-> mainToWorker, toBg |-> mainToBg,
              notices |-> notices, closed |-> closed, dropped |-> dropped]

SetMainState(M) ==
    /\ ports' = M.ports
    /\ mainToPopup' = M.toPopup
    /\ mainToWorker' = M.toWorker
    /\ mainToBg' = M.toBg
    /\ notices' = M.notices
    /\ closed' = M.closed
    /\ dropped' = M.dropped

\* findBackgroundPage: a live background page of the extension, if any.  Only
\* an MV2 extension has one.
FindBackgroundPage == manifestVersion = 2

\* ServiceWorkerMain.send reaches the worker only while it runs.
WorkerReachable(v) == status[v] = "running"

\* isWebContents(port.senderWebContents) && !port.senderWebContents.isDestroyed()
\* The initiator is the popup, a WebContents.
SendToPopup(queue, msg) ==
    IF popupDestroyed THEN queue ELSE Append(queue, msg)

Drop(M, portId, message, why) ==
    [M EXCEPT !.dropped = @ \cup
        {[port |-> portId, why |-> why,
          live |-> \E w \in VersionIds : WorkerReachable(w)]}]

\* ipcMain.on('crx-port-msg')
PortMsg(M, portId, message) ==
    LET port == M.ports[portId] IN
    IF ~port.present THEN Drop(M, portId, message, "noPort")
    ELSE IF port.serviceWorker # NoWorker
    THEN IF WorkerReachable(port.serviceWorker)
         THEN [M EXCEPT !.toWorker = Append(@,
                  [type |-> "msg", port |-> portId, body |-> message,
                   v |-> port.serviceWorker])]
         ELSE Drop(M, portId, message, "staleWorker")
    ELSE IF FindBackgroundPage
    THEN [M EXCEPT !.toBg = Append(@,
             [type |-> "msg", port |-> portId, body |-> message])]
    ELSE Drop(M, portId, message, "noResponder")

\* History: whether the responder of the port is there to be told.
ResponderAlive(port, portId) ==
    \/ manifestVersion = 2
    \/ port.serviceWorker # NoWorker /\ WorkerReachable(port.serviceWorker)
    \/ port.serviceWorker = NoWorker /\ connectPc[portId] = "awaiting"

PortDisconnect_ClearsTable(M, portId) ==
    IF ~M.ports[portId].present THEN M
    ELSE [M EXCEPT !.ports = [q \in DOMAIN M.ports |-> NoPort]]

\* ipcMain.on('crx-port-disconnect')
PortDisconnect(M, portId) ==
    LET port == M.ports[portId]
        toSW == port.serviceWorker # NoWorker
        sentSW == toSW /\ WorkerReachable(port.serviceWorker)
        sentBg == ~toSW /\ FindBackgroundPage
    IN
    IF ~port.present THEN M
    ELSE [M EXCEPT
            !.toWorker = IF sentSW
                         THEN Append(@, [type |-> "disconnect", port |-> portId,
                                         body |-> 0, v |-> port.serviceWorker])
                         ELSE @,
            !.toBg = IF sentBg
                     THEN Append(@, [type |-> "disconnect", port |-> portId,
                                     body |-> 0])
                     ELSE @,
            !.notices[portId] = IF sentSW \/ sentBg THEN @ + 1 ELSE @,
            !.closed[portId] = [by |-> "initiator",
                                otherAlive |-> ResponderAlive(port, portId)],
            !.ports[portId] = NoPort]

\* sw.ipc.on('crx-port-message')
WorkerPortMessage(M, portId, message) ==
    IF ~M.ports[portId].present THEN M
    ELSE [M EXCEPT !.toPopup = SendToPopup(@,
             [type |-> "msg", port |-> portId, body |-> message])]

\* sw.ipc.on('crx-port-disconnect')
WorkerPortDisconnect(M, portId) ==
    IF ~M.ports[portId].present THEN M
    ELSE [M EXCEPT
            !.toPopup = SendToPopup(@,
                [type |-> "disconnect", port |-> portId, body |-> 0]),
            !.notices[portId] = IF popupDestroyed THEN @ ELSE @ + 1,
            !.closed[portId] = [by |-> "responder",
                                otherAlive |-> ~popupDestroyed],
            !.ports[portId] = NoPort]

\* ipcMain.on('crx-port-message-to-popup')
BgPortMessage(M, portId, message) ==
    IF ~M.ports[portId].present THEN M
    ELSE [M EXCEPT !.toPopup = SendToPopup(@,
             [type |-> "msg", port |-> portId, body |-> message])]

\* ipcMain.on('crx-port-disconnect-from-bg')
BgPortDisconnect(M, portId) ==
    IF ~M.ports[portId].present THEN M
    ELSE [M EXCEPT
            !.toPopup = SendToPopup(@,
                [type |-> "disconnect", port |-> portId, body |-> 0]),
            !.notices[portId] = IF popupDestroyed THEN @ ELSE @ + 1,
            !.closed[portId] = [by |-> "responder",
                                otherAlive |-> ~popupDestroyed],
            !.ports[portId] = NoPort]

\* sw.ipc emits an event to each of the n handler sets installed on it.
RECURSIVE EmitPortEvent(_, _, _)
EmitPortEvent(n, M, e) ==
    IF n = 0 THEN M
    ELSE EmitPortEvent(n - 1,
            IF e.type = "msg" THEN WorkerPortMessage(M, e.port, e.body)
            ELSE WorkerPortDisconnect(M, e.port),
            e)

\* --- the popup: connectPort of the preload, RuntimePort of the main world

\* chrome.runtime.connect(): connectPort installs the ipcRenderer listeners,
\* invokes runtime.connect, and its callback runs port._init.
RuntimeConnect(p) ==
    /\ ~popupDestroyed
    /\ rpState[p] = "none"
    /\ rpListening' = [rpListening EXCEPT ![p] = TRUE]
    /\ rendererToMain' = Append(rendererToMain,
                                [type |-> "connect", port |-> p, body |-> 0])
    /\ rpState' = [rpState EXCEPT ![p] = "connected"]
    /\ UNCHANGED <<workerVars, requestVars, otherVars, workerContext, manifestVersion,
                   ports, connectPc, popupDestroyed, initPosted, backgroundPorts,
                   bpConnected, respPosted, mainToPopup, workerToMain, mainToBg,
                   bgToMain, initRecv, respRecv, lateDeliveries, earlyPosts,
                   dropped, notices, closed>>

\* RuntimePort.postMessage on a connected port.  (On a closed port it only
\* pushes to `pending`, which nothing reads after _init.)
RuntimePostMessage(p) ==
    /\ ~popupDestroyed
    /\ rpState[p] = "connected"
    /\ initPosted[p] < MaxPosts
    /\ initPosted' = [initPosted EXCEPT ![p] = @ + 1]
    /\ rendererToMain' = Append(rendererToMain,
                                [type |-> "msg", port |-> p,
                                 body |-> initPosted[p] + 1])
    /\ UNCHANGED <<workerVars, requestVars, otherVars, workerContext, manifestVersion,
                   ports, connectPc, popupDestroyed, rpState, rpListening,
                   backgroundPorts, bpConnected, respPosted, mainToPopup,
                   workerToMain, mainToBg, bgToMain, initRecv, respRecv,
                   lateDeliveries, earlyPosts, dropped, notices, closed>>

\* RuntimePort.disconnect: the ipcRenderer listeners stay installed.
RuntimeDisconnect(p) ==
    /\ ~popupDestroyed
    /\ rpState[p] = "connected"
    /\ rendererToMain' = Append(rendererToMain,
                                [type |-> "disconnect", port |-> p, body |-> 0])
    /\ rpState' = [rpState EXCEPT ![p] = "closed"]
    /\ UNCHANGED <<workerVars, requestVars, otherVars, workerContext, manifestVersion,
                   ports, connectPc, popupDestroyed, rpListening, initPosted,
                   backgroundPorts, bpConnected, respPosted, mainToPopup,
                   workerToMain, mainToBg, bgToMain, initRecv, respRecv,
                   lateDeliveries, earlyPosts, dropped, notices, closed>>

\* The popup's renderer takes the next IPC of the main process:
\* messageHandler -> RuntimePort._receive, or the once-listener of
\* crx-port-disconnect-<id> -> RuntimePort._disconnect.
PopupReceive ==
    /\ ~popupDestroyed
    /\ mainToPopup # <<>>
    /\ LET e == Head(mainToPopup) IN
       /\ mainToPopup' = Tail(mainToPopup)
       /\ IF e.type = "msg"
          THEN /\ initRecv' = IF rpListening[e.port]
                              THEN [initRecv EXCEPT ![e.port] = Append(@, e.body)]
                              ELSE initRecv
               /\ lateDeliveries' =
                    IF rpListening[e.port] /\ rpState[e.port] = "closed"
                    THEN lateDeliveries \cup {<<"initiator", e.port>>}
                    ELSE lateDeliveries
               /\ UNCHANGED <<rpListening, rpState>>
          ELSE /\ rpListening' = [rpListening EXCEPT ![e.port] = FALSE]
               /\ rpState' = IF rpListening[e.port] /\ rpState[e.port] = "connected"
                             THEN [rpState EXCEPT ![e.port] = "closed"]
                             ELSE rpState
               /\ UNCHANGED <<initRecv, lateDeliveries>>
    /\ UNCHANGED <<workerVars, requestVars, otherVars, workerContext, manifestVersion,
                   ports, connectPc, popupDestroyed, initPosted, backgroundPorts,
                   bpConnected, respPosted, rendererToMain, workerToMain,
                   mainToBg, bgToMain, respRecv, earlyPosts, dropped, notices,
                   closed>>

\* The popup is closed: its WebContents is destroyed.
PopupDestroyed ==
    /\ ~popupDestroyed
    /\ popupDestroyed' = TRUE
    /\ mainToPopup' = <<>>
    /\ UNCHANGED <<workerVars, requestVars, otherVars, workerContext, manifestVersion,
                   ports, connectPc, rpState, rpListening, initPosted,
                   backgroundPorts, bpConnected, respPosted, rendererToMain,
                   workerToMain, mainToBg, bgToMain, initRecv, respRecv,
                   lateDeliveries, earlyPosts, dropped, notices, closed>>

\* --- the main process

mainFrame == <<workerVars, requestVars, otherVars, activePorts, manifestVersion,
               popupDestroyed, rpState, rpListening, initPosted, backgroundPorts,
               bpConnected, respPosted, mainToPopup, workerToMain, bgToMain,
               initRecv, respRecv, lateDeliveries>>

\* connect() up to its await: the port record is stored first.
Connect(p) ==
    /\ rendererToMain # <<>>
    /\ Head(rendererToMain) = [type |-> "connect", port |-> p, body |-> 0]
    /\ rendererToMain' = Tail(rendererToMain)
    /\ ports' = [ports EXCEPT ![p] = [present |-> TRUE, serviceWorker |-> NoWorker]]
    /\ connectPc' = [connectPc EXCEPT ![p] = "awaiting"]
    /\ UNCHANGED <<mainFrame, mainToWorker, mainToBg, earlyPosts, dropped,
                   notices, closed>>

\* connect() after startWorkerForScope resolved with worker v: onConnect is
\* sent whether or not the port record is still there.
ConnectWorkerStarted(p, v) ==
    /\ connectPc[p] = "awaiting"
    /\ WorkerReachable(v)
    /\ connectPc' = [connectPc EXCEPT ![p] = "done"]
    /\ ports' = IF ports[p].present
                THEN [ports EXCEPT ![p].serviceWorker = v]
                ELSE ports
    /\ mainToWorker' = Append(mainToWorker,
                         [type |-> "onConnect", port |-> p, body |-> 0, v |-> v])
    /\ UNCHANGED <<mainFrame, rendererToMain, mainToBg, earlyPosts, dropped,
                   notices, closed>>

\* connect() after startWorkerForScope rejected: the MV2 background page.
ConnectWorkerFailed(p) ==
    /\ connectPc[p] = "awaiting"
    /\ connectPc' = [connectPc EXCEPT ![p] = "done"]
    /\ mainToBg' = IF FindBackgroundPage
                   THEN Append(mainToBg,
                               [type |-> "onConnect", port |-> p, body |-> 0])
                   ELSE mainToBg
    /\ UNCHANGED <<mainFrame, rendererToMain, ports, mainToWorker, earlyPosts,
                   dropped, notices, closed>>

\* The main process takes a crx-port-msg of the popup.
MainPortMsg ==
    /\ rendererToMain # <<>>
    /\ Head(rendererToMain).type = "msg"
    /\ LET e == Head(rendererToMain) IN
       /\ SetMainState(PortMsg(MainState, e.port, e.body))
       /\ earlyPosts' = IF ports[e.port].present /\ connectPc[e.port] = "awaiting"
                        THEN [earlyPosts EXCEPT ![e.port] = @ \cup {e.body}]
                        ELSE earlyPosts
    /\ rendererToMain' = Tail(rendererToMain)
    /\ UNCHANGED <<mainFrame, connectPc>>

\* The main process takes a crx-port-disconnect of the popup.
MainPortDisconnect ==
    /\ rendererToMain # <<>>
    /\ Head(rendererToMain).type = "disconnect"
    /\ SetMainState(PortDisconnect(MainState, Head(rendererToMain).port))
    /\ rendererToMain' = Tail(rendererToMain)
    /\ UNCHANGED <<mainFrame, connectPc, earlyPosts>>

\* The main process takes an IPC of a worker: sw.ipc emits it to its handlers.
MainFromWorker ==
    /\ workerToMain # <<>>
    /\ LET e == Head(workerToMain) IN
       /\ SetMainState(EmitPortEvent(ipcHandlers[e.v], MainState, e))
       /\ lastDispatch' = [versionId |-> e.v, start |-> e.start,
                           handled |-> ipcHandlers[e.v]]
    /\ workerToMain' = Tail(workerToMain)
    /\ UNCHANGED <<status, starts, registeredWorkers, ipcHandlers, requestVars, otherVars,
                   activePorts, manifestVersion, popupDestroyed, rpState,
                   rpListening, initPosted, backgroundPorts, bpConnected,
                   respPosted, bgToMain, initRecv, respRecv, lateDeliveries,
                   connectPc, earlyPosts, rendererToMain>>

\* The main process takes an IPC of the background page.
MainFromBg ==
    /\ bgToMain # <<>>
    /\ LET e == Head(bgToMain) IN
       SetMainState(IF e.type = "msg"
                    THEN BgPortMessage(MainState, e.port, e.body)
                    ELSE BgPortDisconnect(MainState, e.port))
    /\ bgToMain' = Tail(bgToMain)
    /\ UNCHANGED <<workerVars, requestVars, otherVars, activePorts, manifestVersion,
                   popupDestroyed, rpState, rpListening, initPosted,
                   backgroundPorts, bpConnected, respPosted, workerToMain,
                   initRecv, respRecv, lateDeliveries, connectPc, earlyPosts,
                   rendererToMain>>

\* setupPortCleanup: the 60 second sweep.
PortCleanup_SweepsEveryPort ==
    /\ ports' = [p \in TablePorts |-> NoPort]
    /\ UNCHANGED <<mainFrame, connectPc, rendererToMain, mainToWorker, mainToBg,
                   earlyPosts, dropped, notices, closed>>

PortCleanup ==
    /\ ports' = [p \in TablePorts |->
                   IF ports[p].present /\ popupDestroyed THEN NoPort ELSE ports[p]]
    /\ UNCHANGED <<mainFrame, connectPc, rendererToMain, mainToWorker, mainToBg,
                   earlyPosts, dropped, notices, closed>>

\* --- the service worker: the polyfill's SWPort and activePorts

LiveWorker(v) == status[v] = "running"

swFrame == <<workerVars, requestVars, otherVars, manifestVersion, ports, connectPc,
             popupDestroyed, rpState, rpListening, initPosted, backgroundPorts,
             bpConnected, rendererToMain, mainToPopup, mainToBg, bgToMain,
             initRecv, earlyPosts, dropped, notices, closed>>

\* The worker takes the next IPC of the main process: onConnect creates an
\* SWPort, crx-port-message goes to _receiveMessage, crx-port-disconnect to
\* _handleDisconnect.
WorkerReceive ==
    /\ mainToWorker # <<>>
    /\ LiveWorker(Head(mainToWorker).v)
    /\ LET e == Head(mainToWorker) IN
       /\ activePorts' = CASE e.type = "onConnect" -> activePorts \cup {e.port}
                           [] e.type = "disconnect" -> activePorts \ {e.port}
                           [] OTHER -> activePorts
       /\ respRecv' = IF e.type = "msg" /\ e.port \in activePorts
                      THEN [respRecv EXCEPT ![e.port] = Append(@, e.body)]
                      ELSE respRecv
    /\ mainToWorker' = Tail(mainToWorker)
    /\ UNCHANGED <<swFrame, respPosted, workerToMain, lateDeliveries>>

\* SWPort.postMessage
SWPostMessage(v, p) ==
    /\ LiveWorker(v)
    /\ p \in activePorts
    /\ respPosted[p] < MaxPosts
    /\ respPosted' = [respPosted EXCEPT ![p] = @ + 1]
    /\ workerToMain' = Append(workerToMain,
                         [type |-> "msg", port |-> p, body |-> respPosted[p] + 1,
                          v |-> v, start |-> starts[v]])
    /\ UNCHANGED <<swFrame, workerContext, respRecv, lateDeliveries>>

\* SWPort.disconnect
SWDisconnect(v, p) ==
    /\ LiveWorker(v)
    /\ p \in activePorts
    /\ activePorts' = activePorts \ {p}
    /\ workerToMain' = Append(workerToMain,
                         [type |-> "disconnect", port |-> p, body |-> 0,
                          v |-> v, start |-> starts[v]])
    /\ UNCHANGED <<swFrame, mainToWorker, respPosted, respRecv, lateDeliveries>>

\* --- the background page: OnConnectEvent, BackgroundPort, backgroundPorts

bgFrame == <<workerVars, requestVars, otherVars, workerContext, manifestVersion, ports,
             connectPc, popupDestroyed, rpState, rpListening, initPosted,
             rendererToMain, mainToPopup, workerToMain, initRecv, earlyPosts,
             dropped, notices, closed>>

\* The listeners of OnConnectEvent.initializeListeners.
BgReceive ==
    /\ mainToBg # <<>>
    /\ LET e == Head(mainToBg)
           known == e.port \in backgroundPorts
       IN
       /\ backgroundPorts' =
            CASE e.type = "onConnect" -> backgroundPorts \cup {e.port}
              [] e.type = "disconnect" -> backgroundPorts \ {e.port}
              [] OTHER -> backgroundPorts
       /\ bpConnected' =
            CASE e.type = "onConnect" -> [bpConnected EXCEPT ![e.port] = TRUE]
              [] e.type = "disconnect" /\ known ->
                    [bpConnected EXCEPT ![e.port] = FALSE]
              [] OTHER -> bpConnected
       /\ respRecv' = IF e.type = "msg" /\ known
                      THEN [respRecv EXCEPT ![e.port] = Append(@, e.body)]
                      ELSE respRecv
       /\ lateDeliveries' =
            IF e.type = "msg" /\ known /\ ~bpConnected[e.port]
            THEN lateDeliveries \cup {<<"background", e.port>>}
            ELSE lateDeliveries
    /\ mainToBg' = Tail(mainToBg)
    /\ UNCHANGED <<bgFrame, respPosted, bgToMain>>

\* BackgroundPort.postMessage
BgPostMessage(p) ==
    /\ p \in backgroundPorts
    /\ bpConnected[p]
    /\ respPosted[p] < MaxPosts
    /\ respPosted' = [respPosted EXCEPT ![p] = @ + 1]
    /\ bgToMain' = Append(bgToMain,
                     [type |-> "msg", port |-> p, body |-> respPosted[p] + 1])
    /\ UNCHANGED <<bgFrame, backgroundPorts, bpConnected, mainToBg, respRecv,
                   lateDeliveries>>

\* BackgroundPort.disconnect: the port stays in backgroundPorts.
BgDisconnect(p) ==
    /\ p \in backgroundPorts
    /\ bpConnected[p]
    /\ bpConnected' = [bpConnected EXCEPT ![p] = FALSE]
    /\ bgToMain' = Append(bgToMain,
                     [type |-> "disconnect", port |-> p, body |-> 0])
    /\ UNCHANGED <<bgFrame, backgroundPorts, respPosted, mainToBg, respRecv,
                   lateDeliveries>>

InitPorts ==
    /\ ports = [p \in TablePorts |-> NoPort]
    /\ connectPc = [p \in TablePorts |-> "unused"]
    /\ popupDestroyed = FALSE
    /\ rpState = [p \in PortIds |-> "none"]
    /\ rpListening = [p \in PortIds |-> FALSE]
    /\ initPosted = [p \in PortIds |-> 0]
    /\ activePorts = {}
    /\ backgroundPorts = {}
    /\ bpConnected = [p \in PortIds |-> FALSE]
    /\ respPosted = [p \in PortIds |-> 0]
    /\ rendererToMain = <<>>
    /\ mainToPopup = <<>>
    /\ mainToWorker = <<>>
    /\ workerToMain = <<>>
    /\ mainToBg = <<>>
    /\ bgToMain = <<>>
    /\ initRecv = [p \in PortIds |-> <<>>]
    /\ respRecv = [p \in PortIds |-> <<>>]
    /\ lateDeliveries = {}
    /\ earlyPosts = [p \in PortIds |-> {}]
    /\ dropped = {}
    /\ notices = [p \in TablePorts |-> 0]
    /\ closed = [p \in TablePorts |-> [by |-> "none", otherAlive |-> FALSE]]

PortNext ==
    \/ \E p \in PortIds : RuntimeConnect(p)
    \/ \E p \in PortIds : RuntimePostMessage(p)
    \/ \E p \in PortIds : RuntimeDisconnect(p)
    \/ PopupReceive
    \/ PopupDestroyed
    \/ \E p \in PortIds : Connect(p)
    \/ \E p \in PortIds, v \in VersionIds : ConnectWorkerStarted(p, v)
    \/ \E p \in PortIds : ConnectWorkerFailed(p)
    \/ MainPortMsg
    \/ MainPortDisconnect
    \/ MainFromWorker
    \/ MainFromBg
    \/ PortCleanup
    \/ WorkerReceive
    \/ \E v \in VersionIds, p \in PortIds : SWPostMessage(v, p)
    \/ \E v \in VersionIds, p \in PortIds : SWDisconnect(v, p)
    \/ BgReceive
    \/ \E p \in PortIds : BgPostMessage(p)
    \/ \E p \in PortIds : BgDisconnect(p)

\* ------------------------------- the main process, whatever IPC reaches it

\* The requests and the port table of the main process together, while one
\* service worker runs, with the renderers, the worker's context and the
\* background page as senders of any IPC at any time.  What the handlers
\* send to them is not followed.
SetTables(M) ==
    /\ ports' = M.ports
    /\ notices' = M.notices
    /\ closed' = M.closed

scopeFrame == <<workerVars, requestVars, otherVars, workerContext,
                manifestVersion, popupDestroyed, rpState, rpListening,
                initPosted, backgroundPorts, bpConnected, respPosted,
                rendererToMain, mainToPopup, workerToMain, mainToBg, bgToMain,
                initRecv, respRecv, lateDeliveries, earlyPosts, dropped>>

\* ipcMain.handle('runtime.connect'): connect() up to its await.
IpcConnect(p) ==
    /\ connectPc[p] = "unused"
    /\ connectPc' = [connectPc EXCEPT ![p] = "awaiting"]
    /\ ports' = [ports EXCEPT ![p] = [present |-> TRUE,
                                      serviceWorker |-> NoWorker]]
    /\ UNCHANGED <<notices, closed, scopeFrame>>

\* connect() after startWorkerForScope: resolved with the running worker w,
\* or rejected (w is NoWorker).
IpcConnectSettled(p, w) ==
    /\ connectPc[p] = "awaiting"
    /\ w # NoWorker => WorkerReachable(w)
    /\ connectPc' = [connectPc EXCEPT ![p] = "done"]
    /\ ports' = IF w # NoWorker /\ ports[p].present
                THEN [ports EXCEPT ![p].serviceWorker = w]
                ELSE ports
    /\ UNCHANGED <<notices, closed, scopeFrame>>

\* ipcMain gets 'crx-port-msg' for port p.
IpcPortMsg(p, message) ==
    /\ SetTables(PortMsg(MainState, p, message))
    /\ UNCHANGED <<connectPc, scopeFrame>>

\* ipcMain gets 'crx-port-disconnect' for port p.
IpcPortDisconnect(p) ==
    /\ SetTables(PortDisconnect(MainState, p))
    /\ UNCHANGED <<connectPc, scopeFrame>>

\* The sw.ipc of the running worker v gets 'crx-port-message' or
\* 'crx-port-disconnect' for port p.
IpcFromWorker(v, p, type) ==
    /\ status[v] = "running"
    /\ SetTables(EmitPortEvent(ipcHandlers[v], MainState,
                               [type |-> type, port |-> p, body |-> 1]))
    /\ UNCHANGED <<connectPc, scopeFrame>>

\* ipcMain gets 'crx-port-message-to-popup' or 'crx-port-disconnect-from-bg'
\* for port p.
IpcFromBg(p, type) ==
    /\ SetTables(IF type = "msg" THEN BgPortMessage(MainState, p, 1)
                 ELSE BgPortDisconnect(MainState, p))
    /\ UNCHANGED <<connectPc, scopeFrame>>

\* ------------------------------------------- ExtensionRouter: the listeners

\* The hosts (webContents) that register frame listeners: a tab showing an
\* extension page or running content scripts, and a popup.
Hosts == {"tab", "popup"}
\* listener.host of a service-worker listener: there is none.
NoHost == "none"
ExtensionIds == {"extA", "extB"}
\* targetExtensionId of broadcastEvent: void 0
NoExtension == "undefined"
EventNames == {"tabs.onRemoved", "runtime.onMessage"}
\* The names handle() is called with, and the names messages ask for.
HandlerNames == {"cookies.get"}
InvokedNames == {"cookies.get", "tabs.query"}
\* At most so many listeners are registered at a time.
MaxListeners == 3

FrameListener(extensionId, host) ==
    [type |-> "frame", extensionId |-> extensionId, host |-> host]
WorkerListener(extensionId) ==
    [type |-> "service-worker", extensionId |-> extensionId, host |-> NoHost]
Listeners ==
    {FrameListener(e, h) : e \in ExtensionIds, h \in Hosts}
        \cup {WorkerListener(e) : e \in ExtensionIds}

\* What a listener delivers to: the host of a frame listener, the extension
\* of a service-worker listener.
EndpointIdentity(listener) ==
    IF listener.type = "frame" THEN <<"frame", listener.host>>
    ELSE <<"service-worker", listener.extensionId>>

\* host.isDestroyed()
IsDestroyed(host) == hostState[host] # "alive"

eventListenerEquals(a, b) ==
    IF a = b THEN TRUE
    ELSE IF a.extensionId # b.extensionId THEN FALSE
    ELSE IF a.type # b.type THEN FALSE
    ELSE IF a.type = "frame" /\ b.type = "frame" THEN a.host = b.host
    ELSE TRUE

\* Array.prototype.findIndex, 1-based; 0 when nothing matches.
RECURSIVE FindIndexFrom(_, _, _)
FindIndexFrom(eventListeners, listener, i) ==
    IF i > Len(eventListeners) THEN 0
    ELSE IF eventListenerEquals(listener, eventListeners[i]) THEN i
    ELSE FindIndexFrom(eventListeners, listener, i + 1)

FindIndex(eventListeners, listener) == FindIndexFrom(eventListeners, listener, 1)

\* Array.prototype.splice(index, 1)
Splice(seq, index) ==
    [i \in 1..(Len(seq) - 1) |-> IF i < index THEN seq[i] ELSE seq[i + 1]]

\* A Map without entries.
EmptyMap == [n \in {} |-> <<>>]

\* The listeners map with eventName set to bucket.
MapSet(L, eventName, bucket) ==
    [n \in DOMAIN L \cup {eventName} |-> IF n = eventName THEN bucket ELSE L[n]]

\* The listeners map without eventName.
MapDelete(L, eventName) == [n \in DOMAIN L \ {eventName} |-> L[n]]

filterListeners_FirstBucketOnly(L, predicate) ==
    IF DOMAIN L = {} THEN L
    ELSE LET n == CHOOSE m \in DOMAIN L : TRUE
             Keep(listener) == listener \in predicate
             filteredListeners == SelectSeq(L[n], Keep)
         IN  IF Len(filteredListeners) > 0
             THEN MapSet(L, n, filteredListeners)
             ELSE MapDelete(L, n)

\* Every bucket filtered by the predicate (the set of the listeners it is
\* true of); a bucket left empty is deleted.
filterListeners(L, predicate) ==
    LET Keep(listener) == listener \in predicate
    IN  [n \in {m \in DOMAIN L : Len(SelectSeq(L[m], Keep)) > 0} |->
            SelectSeq(L[n], Keep)]

addListener_NoDedupe(L, listener, extensionId, eventName) ==
    IF extensionId \notin extensions THEN L
    ELSE LET withBucket == IF eventName \in DOMAIN L THEN L
                           ELSE MapSet(L, eventName, <<>>)
         IN  MapSet(withBucket, eventName,
                    Append(withBucket[eventName], listener))

\* The listeners map after addListener; it throws, before it touches the map,
\* for an extension the session does not know.
addListener(L, listener, extensionId, eventName) ==
    IF extensionId \notin extensions THEN L
    ELSE LET withBucket == IF eventName \in DOMAIN L THEN L
                           ELSE MapSet(L, eventName, <<>>)
             eventListeners == withBucket[eventName]
         IN  IF FindIndex(eventListeners, listener) > 0
             THEN withBucket
             ELSE MapSet(withBucket, eventName,
                         Append(eventListeners, listener))

removeListener_KeepsEmptyBucket(L, listener, extensionId, eventName) ==
    IF eventName \notin DOMAIN L THEN L
    ELSE LET eventListeners == L[eventName]
             index == FindIndex(eventListeners, listener)
         IN  MapSet(L, eventName,
                    IF index >= 1 THEN Splice(eventListeners, index)
                    ELSE eventListeners)

removeListener_NoSplice(L, listener, extensionId, eventName) ==
    IF eventName \notin DOMAIN L THEN L
    ELSE IF Len(L[eventName]) = 0 THEN MapDelete(L, eventName)
    ELSE L

\* The listeners map after removeListener.
removeListener(L, listener, extensionId, eventName) ==
    IF eventName \notin DOMAIN L THEN L
    ELSE LET eventListeners == L[eventName]
             index == FindIndex(eventListeners, listener)
             spliced == IF index >= 1 THEN Splice(eventListeners, index)
                        ELSE eventListeners
         IN  IF Len(spliced) = 0 THEN MapDelete(L, eventName)
             ELSE MapSet(L, eventName, spliced)

\* The loop of sendEvent from the i-th listener of the bucket on: the
\* deliveries it makes, in order. A frame listener whose host is destroyed
\* ends the loop (return); a service-worker listener is served by
\* startWorkerForScope(scope).then(send).
RECURSIVE SendLoop(_, _, _)
SendLoop(eventListeners, i, targetExtensionId) ==
    IF i > Len(eventListeners) THEN <<>>
    ELSE LET listener == eventListeners[i]
         IN  IF /\ targetExtensionId # NoExtension
                /\ targetExtensionId # listener.extensionId
             THEN SendLoop(eventListeners, i + 1, targetExtensionId)
             ELSE IF listener.type = "service-worker"
             THEN <<[to |-> listener, via |-> "startWorkerForScope"]>>
                      \o SendLoop(eventListeners, i + 1, targetExtensionId)
             ELSE IF IsDestroyed(listener.host) THEN <<>>
             ELSE <<[to |-> listener, via |-> "send"]>>
                      \o SendLoop(eventListeners, i + 1, targetExtensionId)

\* The deliveries of sendEvent(targetExtensionId, eventName, ...).
sendEvent(L, targetExtensionId, eventName) ==
    IF eventName \notin DOMAIN L \/ Len(L[eventName]) = 0 THEN <<>>
    ELSE SendLoop(L[eventName], 1, targetExtensionId)

RECURSIVE TotalLen(_, _)
TotalLen(L, names) ==
    IF names = {} THEN 0
    ELSE LET n == CHOOSE m \in names : TRUE
         IN  Len(L[n]) + TotalLen(L, names \ {n})

NoAdd == [found |-> FALSE, sameEndpoint |-> FALSE, changed |-> FALSE,
          added |-> FALSE]
NoRemoval == <<"none", WorkerListener(NoExtension)>>
NoEvent == [name |-> "none", target |-> NoExtension, bucket |-> <<>>,
            dead |-> {}, deliveries |-> <<>>, removed |-> NoRemoval]
NoPrune == [host |-> NoHost, names |-> {}]
NoCall == [name |-> "none", remote |-> FALSE, extensionId |-> "undefined",
           invoked |-> "none", error |-> "none"]

\* No 'destroyed' event is being emitted: the event loop is free to take
\* the next IPC message or session event.
LoopFree == \A h \in Hosts : hostState[h] # "destroying"

handlerVars == <<handlers, handleCalls>>
routerFrame == <<workerVars, requestVars, portVars, nativeVars,
                wireVars, objectVars>>

\* session.extensions loads an extension.
ExtensionLoaded(e) ==
    /\ LoopFree
    /\ e \notin extensions
    /\ extensions' = extensions \cup {e}
    /\ lastRemoved' = NoRemoval
    /\ lastAdd' = NoAdd /\ lastEvent' = NoEvent
    /\ lastPrune' = NoPrune /\ lastCall' = NoCall
    /\ UNCHANGED <<hostState, observedHosts, listeners, handlerVars, wanted, routerFrame>>

\* 'extension-unloaded': the listeners of the extension are filtered out.
ExtensionUnloaded(e) ==
    /\ LoopFree
    /\ e \in extensions
    /\ extensions' = extensions \ {e}
    /\ LET after == filterListeners(listeners,
                                    {l \in Listeners : l.extensionId # e})
       IN  /\ listeners' = after
           /\ lastPrune' =
                 [host |-> NoHost,
                  names |-> {n \in DOMAIN listeners :
                               n \notin DOMAIN after
                                   \/ after[n] # listeners[n]}]
    /\ wanted' = {w \in wanted : w[2].extensionId # e}
    /\ lastRemoved' = NoRemoval
    /\ lastAdd' = NoAdd /\ lastEvent' = NoEvent /\ lastCall' = NoCall
    /\ UNCHANGED <<hostState, observedHosts, handlerVars, routerFrame>>

\* 'crx-add-listener' from a live frame or from a service worker:
\* RoutingDelegate.onAddListener builds the listener, addListener stores it
\* and observes the host of a frame listener it pushed.
OnAddListener(listener, eventName) ==
    /\ LoopFree
    /\ listener.type = "frame" => hostState[listener.host] = "alive"
    /\ TotalLen(listeners, DOMAIN listeners) < MaxListeners
    /\ LET after == addListener(listeners, listener, listener.extensionId,
                                eventName)
           known == listener.extensionId \in extensions
           found == /\ eventName \in DOMAIN listeners
                    /\ FindIndex(listeners[eventName], listener) > 0
           pushed == /\ eventName \in DOMAIN after
                     /\ \/ eventName \notin DOMAIN listeners
                        \/ Len(after[eventName]) > Len(listeners[eventName])
       IN  /\ listeners' = after
           /\ observedHosts' =
                 IF pushed /\ listener.type = "frame"
                 THEN observedHosts \cup {listener.host}
                 ELSE observedHosts
           /\ wanted' = IF known THEN wanted \cup {<<eventName, listener>>}
                        ELSE wanted
           /\ lastRemoved' = NoRemoval
           /\ lastAdd' = [found |-> found, changed |-> after # listeners,
                          added |-> known,
                          sameEndpoint |->
                              /\ eventName \in DOMAIN listeners
                              /\ \E i \in 1..Len(listeners[eventName]) :
                                    EndpointIdentity(listeners[eventName][i])
                                        = EndpointIdentity(listener)]
    /\ lastEvent' = NoEvent /\ lastPrune' = NoPrune /\ lastCall' = NoCall
    /\ UNCHANGED <<extensions, hostState, handlerVars, routerFrame>>

\* 'crx-remove-listener': RoutingDelegate.onRemoveListener, removeListener.
OnRemoveListener(listener, eventName) ==
    /\ LoopFree
    /\ listener.type = "frame" => hostState[listener.host] = "alive"
    /\ listeners' = removeListener(listeners, listener, listener.extensionId,
                                   eventName)
    /\ wanted' = wanted \ {<<eventName, listener>>}
    /\ lastRemoved' = IF <<eventName, listener>> \in wanted
                      THEN <<eventName, listener>> ELSE NoRemoval
    /\ lastAdd' = NoAdd /\ lastEvent' = NoEvent
    /\ lastPrune' = NoPrune /\ lastCall' = NoCall
    /\ UNCHANGED <<extensions, hostState, observedHosts, handlerVars,
                   routerFrame>>

\* A tab is destroyed: webContents emits 'destroyed' with isDestroyed() true.
\* The callbacks run in the order they were registered; the one TabsAPI
\* registered when it first saw the tab runs before the one the router
\* registered when the tab's page added a listener.
TabDestroyedEmit ==
    /\ LoopFree
    /\ hostState["tab"] = "alive"
    /\ hostState' = [hostState EXCEPT !["tab"] = "destroying"]
    /\ lastRemoved' = NoRemoval
    /\ lastAdd' = NoAdd /\ lastEvent' = NoEvent
    /\ lastPrune' = NoPrune /\ lastCall' = NoCall
    /\ UNCHANGED <<extensions, observedHosts, listeners, handlerVars, wanted, routerFrame>>

\* TabsAPI's 'destroyed' callback: onRemoved broadcasts tabs.onRemoved.
TabsOnRemoved ==
    /\ hostState["tab"] = "destroying"
    /\ lastEvent.name = "none"
    /\ lastEvent' =
          [name |-> "tabs.onRemoved", target |-> NoExtension,
           bucket |-> IF "tabs.onRemoved" \in DOMAIN listeners
                      THEN listeners["tabs.onRemoved"] ELSE <<>>,
           dead |-> {h \in Hosts : IsDestroyed(h)},
           removed |-> lastRemoved,
           deliveries |-> sendEvent(listeners, NoExtension, "tabs.onRemoved")]
    /\ lastRemoved' = NoRemoval
    /\ lastAdd' = NoAdd /\ lastPrune' = NoPrune /\ lastCall' = NoCall
    /\ UNCHANGED <<extensions, hostState, observedHosts, listeners, handlerVars,
                   wanted, routerFrame>>

\* The router's once('destroyed') callback of observeListenerHost, or the end
\* of the emission when the router never observed the host.
HostDestroyedCallback(h) ==
    /\ hostState[h] = "destroying"
    /\ hostState' = [hostState EXCEPT ![h] = "destroyed"]
    /\ LET after == IF h \in observedHosts
                    THEN filterListeners(listeners,
                             {l \in Listeners :
                                 l.type # "frame" \/ l.host # h})
                    ELSE listeners
       IN  /\ listeners' = after
           /\ lastPrune' =
                 [host |-> h,
                  names |-> {n \in DOMAIN listeners :
                               n \notin DOMAIN after
                                   \/ after[n] # listeners[n]}]
    /\ observedHosts' = observedHosts \ {h}
    /\ wanted' = {w \in wanted : w[2].host # h}
    /\ lastRemoved' = NoRemoval
    /\ lastAdd' = NoAdd /\ lastEvent' = NoEvent /\ lastCall' = NoCall
    /\ UNCHANGED <<extensions, handlerVars, routerFrame>>

\* A popup closes: nothing else listens to its 'destroyed' event before the
\* router does.
PopupDestroyedEmit ==
    /\ LoopFree
    /\ hostState["popup"] = "alive"
    /\ hostState' = [hostState EXCEPT !["popup"] = "destroying"]
    /\ lastRemoved' = NoRemoval
    /\ lastAdd' = NoAdd /\ lastEvent' = NoEvent
    /\ lastPrune' = NoPrune /\ lastCall' = NoCall
    /\ UNCHANGED <<extensions, observedHosts, listeners, handlerVars, wanted, routerFrame>>

\* An API calls sendEvent (or broadcastEvent: NoExtension) from the loop.
SendEvent(targetExtensionId, eventName) ==
    /\ LoopFree
    /\ lastEvent' =
          [name |-> eventName, target |-> targetExtensionId,
           bucket |-> IF eventName \in DOMAIN listeners
                      THEN listeners[eventName] ELSE <<>>,
           dead |-> {h \in Hosts : IsDestroyed(h)},
           removed |-> lastRemoved,
           deliveries |-> sendEvent(listeners, targetExtensionId, eventName)]
    /\ lastRemoved' = NoRemoval
    /\ lastAdd' = NoAdd /\ lastPrune' = NoPrune /\ lastCall' = NoCall
    /\ UNCHANGED <<extensions, hostState, observedHosts, listeners, handlerVars,
                   wanted, routerFrame>>

InitRouter ==
    /\ extensions = {}
    /\ hostState = [h \in Hosts |-> "alive"]
    /\ observedHosts = {}
    /\ listeners = EmptyMap
    /\ handlers = EmptyMap
    /\ handleCalls = [n \in HandlerNames |->
                        [first |-> "none", times |-> 0]]
    /\ wanted = {}
    /\ lastRemoved = NoRemoval
    /\ lastAdd = NoAdd
    /\ lastEvent = NoEvent
    /\ lastPrune = NoPrune
    /\ lastCall = NoCall

ListenerNext ==
    \/ \E e \in ExtensionIds : ExtensionLoaded(e)
    \/ \E e \in ExtensionIds : ExtensionUnloaded(e)
    \/ \E l \in Listeners, n \in EventNames : OnAddListener(l, n)
    \/ \E l \in Listeners, n \in EventNames : OnRemoveListener(l, n)
    \/ TabDestroyedEmit
    \/ TabsOnRemoved
    \/ PopupDestroyedEmit
    \/ \E h \in Hosts : HostDestroyedCallback(h)
    \/ \E e \in ExtensionIds \cup {NoExtension}, n \in EventNames :
          SendEvent(e, n)

\* -------------------------------------------- ExtensionRouter: the handlers

Callbacks == {"callbackA", "callbackB"}
NoCallback == "none"
\* opts.permission, or the permission of a handler, when there is none
NoPermission == "undefined"
Permissions == {"cookies"}
\* An option of handle(): a boolean, or left out.
OptionValues == {"true", "false", "undefined"}
HandlerOptions ==
    [extensionContext : OptionValues, allowRemote : OptionValues,
     permission : Permissions \cup {NoPermission}]

\* extension.manifest.permissions of the loaded extensions
ManifestPermissions(extensionId) ==
    IF extensionId = "extA" THEN {"cookies"} ELSE {}

\* The handlers map after handle(name, callback, opts).
handle(H, name, callback, opts) ==
    MapSet(H, name,
           [callback |-> callback,
            extensionContext |->
                IF opts.extensionContext \in {"true", "false"}
                THEN opts.extensionContext = "true" ELSE TRUE,
            allowRemote |->
                IF opts.allowRemote \in {"true", "false"}
                THEN opts.allowRemote = "true" ELSE FALSE,
            permission |-> opts.permission])

onExtensionMessage_NoPermissionCheck(H, remote, extensionId, handlerName) ==
    IF handlerName \notin DOMAIN H
    THEN [invoked |-> NoCallback, error |-> "UnknownHandler"]
    ELSE LET handler == H[handlerName]
             extension == extensionId # NoExtension /\ extensionId \in extensions
         IN  IF remote /\ ~handler.allowRemote
             THEN [invoked |-> NoCallback, error |-> "RemoteNotAllowed"]
             ELSE IF ~extension /\ handler.extensionContext
             THEN [invoked |-> NoCallback, error |-> "UnknownContext"]
             ELSE [invoked |-> handler.callback, error |-> "none"]

\* onExtensionMessage: the callback it invokes, or the error it throws.
\* extension is what getExtension(extensionId) of the event's session finds.
onExtensionMessage(H, remote, extensionId, handlerName) ==
    IF handlerName \notin DOMAIN H
    THEN [invoked |-> NoCallback, error |-> "UnknownHandler"]
    ELSE LET handler == H[handlerName]
             extension == extensionId # NoExtension /\ extensionId \in extensions
         IN  IF remote /\ ~handler.allowRemote
             THEN [invoked |-> NoCallback, error |-> "RemoteNotAllowed"]
             ELSE IF ~extension /\ handler.extensionContext
             THEN [invoked |-> NoCallback, error |-> "UnknownContext"]
             ELSE IF /\ handler.permission # NoPermission
                     /\ \/ ~extension
                        \/ handler.permission
                               \notin ManifestPermissions(extensionId)
             THEN [invoked |-> NoCallback, error |-> "PermissionDenied"]
             ELSE [invoked |-> handler.callback, error |-> "none"]

handlerFrame == <<extensions, hostState, observedHosts, listeners, wanted,
                  lastRemoved,
                  lastAdd, lastEvent, lastPrune, routerFrame>>

\* An API registers a handler: handle(name, callback, opts).
Handle(name, callback, opts) ==
    /\ handlers' = handle(handlers, name, callback, opts)
    /\ handleCalls' =
          [handleCalls EXCEPT ![name] =
              IF @.times = 0 THEN [first |-> callback, times |-> 1]
              ELSE [first |-> @.first, times |-> 2]]
    /\ lastCall' = NoCall
    /\ UNCHANGED handlerFrame

RecordCall(remote, extensionId, handlerName) ==
    LET outcome == onExtensionMessage(handlers, remote, extensionId, handlerName)
    IN  lastCall' = [name |-> handlerName, remote |-> remote,
                     extensionId |-> extensionId,
                     invoked |-> outcome.invoked, error |-> outcome.error]

\* 'crx-msg': RoutingDelegate.onRouterMessage hands the message to the router
\* of the event's own session.
OnRouterMessage(extensionId, handlerName) ==
    /\ RecordCall(FALSE, extensionId, handlerName)
    /\ UNCHANGED <<handlers, handleCalls, handlerFrame>>

\* 'crx-msg-remote': RoutingDelegate.onRemoteMessage hands the message to the
\* router of the named partition, with no extension id.
OnRemoteMessage(remote, handlerName) ==
    /\ RecordCall(remote, NoExtension, handlerName)
    /\ UNCHANGED <<handlers, handleCalls, handlerFrame>>

HandlerNext ==
    \/ \E n \in HandlerNames, c \in Callbacks, o \in HandlerOptions :
          Handle(n, c, o)
    \/ \E e \in ExtensionIds \cup {NoExtension}, n \in InvokedNames :
          OnRouterMessage(e, n)
    \/ \E r \in BOOLEAN, n \in InvokedNames : OnRemoteMessage(r, n)

\* ------------------------------------ NativeMessagingHost and its NativePort

\* The extension posts at most so many messages on its native port.
MaxNativePosts == 2

\* The extension that calls connectNative, and its origin.
RequestingOrigin == "chrome-extension://extA/"
Origins == {"chrome-extension://extA/", "chrome-extension://extB/"}
\* readNativeMessagingHostConfig found no valid descriptor.
NoConfig == [found |-> FALSE, allowed_origins |-> {}]
\* getConfigSearchPaths: the search locations of darwin and of linux, in order.
Locations == 1..3
\* What readFile and JSON.parse make of the file at one location: readFile
\* fails, the text does not parse, or it parses to a config.  A parsed config
\* has its name, description and path; its type and its origins vary.
ConfigTypes == {"stdio", "other"}
OriginLists == {{o} : o \in Origins}
Files ==
    {[kind |-> k, type |-> "", allowed_origins |-> {}] :
        k \in {"ENOENT", "unparsable"}}
    \cup {[kind |-> "json", type |-> t, allowed_origins |-> S] :
             t \in ConfigTypes, S \in OriginLists}
SearchResults == [Locations -> Files]

\* isValidConfig
isValidConfig(config) == config.type = "stdio"

RECURSIVE ReadFrom(_, _)
ReadFrom(files, i) ==
    IF i > Len(files) THEN NoConfig
    ELSE IF files[i].kind = "json" /\ isValidConfig(files[i])
    THEN [found |-> TRUE, allowed_origins |-> files[i].allowed_origins]
    ELSE ReadFrom(files, i + 1)

readNativeMessagingHostConfig_PrefersAllowing(files) ==
    LET allowing == {i \in DOMAIN files :
                        /\ files[i].kind = "json"
                        /\ isValidConfig(files[i])
                        /\ RequestingOrigin \in files[i].allowed_origins}
    IN  IF allowing = {} THEN ReadFrom(files, 1)
        ELSE ReadFrom(files, CHOOSE i \in allowing :
                                \A j \in allowing : i <= j)

\* readNativeMessagingHostConfig: the first location, in order, whose file
\* reads, parses and is a valid config; the others are skipped.
readNativeMessagingHostConfig(files) == ReadFrom(files, 1)

\* What fs.stat(config.path) shows.
Executables == {"missing", "directory", "file"}

\* The fields of the NativeMessagingHost, its child and what it sent.
NativeState ==
    [connected |-> connected, process |-> process, sender |-> sender,
     listening |-> hostListening, pending |-> pending, child |-> child,
     stdin |-> stdin, kills |-> kills, toRenderer |-> toRenderer,
     disconnectsSent |-> disconnectsSent, destroyed |-> destroyed,
     destroyCalls |-> destroyCalls, keepAlive |-> keepAlive]

SetNative(N) ==
    /\ connected' = N.connected
    /\ process' = N.process
    /\ sender' = N.sender
    /\ hostListening' = N.listening
    /\ pending' = N.pending
    /\ child' = N.child
    /\ stdin' = N.stdin
    /\ kills' = N.kills
    /\ toRenderer' = N.toRenderer
    /\ disconnectsSent' = N.disconnectsSent
    /\ destroyed' = N.destroyed
    /\ destroyCalls' = N.destroyCalls

destroy_KeepsSender(N) ==
    LET killed == IF N.process
                  THEN [N EXCEPT !.kills = @ + 1,
                                 !.child = IF @ = "running" THEN "killed" ELSE @]
                  ELSE N
        told == IF killed.keepAlive /\ killed.sender
                THEN [killed EXCEPT !.listening = FALSE,
                                    !.toRenderer = @ + 1,
                                    !.disconnectsSent = @ + 1]
                ELSE killed
    IN  [told EXCEPT !.connected = FALSE, !.destroyed = TRUE,
                     !.destroyCalls = @ + 1]

\* NativeMessagingHost.destroy
destroy(N) ==
    LET killed == IF N.process
                  THEN [N EXCEPT !.kills = @ + 1,
                                 !.child = IF @ = "running" THEN "killed" ELSE @,
                                 !.process = FALSE]
                  ELSE N
        told == IF killed.keepAlive /\ killed.sender
                THEN [killed EXCEPT !.listening = FALSE,
                                    !.toRenderer = @ + 1,
                                    !.disconnectsSent = @ + 1]
                ELSE killed
    IN  [told EXCEPT !.connected = FALSE, !.sender = FALSE,
                     !.destroyed = TRUE, !.destroyCalls = @ + 1]

send_DropsUntilConnected(N, json) ==
    IF ~N.connected THEN N
    ELSE [N EXCEPT !.stdin = Append(@, json)]

\* NativeMessagingHost.send
send(N, json) ==
    IF ~N.connected THEN [N EXCEPT !.pending = Append(@, json)]
    ELSE [N EXCEPT !.stdin = Append(@, json)]

\* this.pending.forEach((msg) => this.send(msg))
RECURSIVE SendEach(_, _, _)
SendEach(N, msgs, i) ==
    IF i > Len(msgs) THEN N
    ELSE SendEach(send(N, msgs[i]), msgs, i + 1)

launchAfterConfig_NoOriginCheck(config) ==
    IF ~config.found THEN "failed" ELSE "stat"

\* launch() after readNativeMessagingHostConfig: where it goes next.
launchAfterConfig(config) ==
    IF ~config.found THEN "failed"
    ELSE IF RequestingOrigin \notin config.allowed_origins THEN "failed"
    ELSE "stat"

\* launch() after fs.stat: isFile
IsFile(stat) == stat = "file"

\* What no step of the connection writes but the steps named below.
sendNativeVars == <<keepAlive, resolveResponse, request, replies, nativeMsgs>>

nativeFrame == <<workerVars, requestVars, portVars, routerVars, wireVars,
                objectVars>>

\* --- the renderer

\* chrome.runtime.connectNative(application): the NativePort is made, the
\* invoke of runtime.connectNative is sent and _init runs at once.
ConnectNative ==
    /\ portState = "none"
    /\ request = "none"
    /\ portState' = "connected"
    /\ nativeIpc' = Append(nativeIpc, [kind |-> "connectNative", body |-> 0])
    /\ UNCHANGED <<hostMap, launchPc, connected, process, sender,
                   hostListening, pending, child, stdin, toRenderer, posted,
                   spawns, kills, disconnectsSent, destroyed, destroyCalls,
                   descriptor, searched,
                   executable, flushed, sendNativeVars, nativeFrame>>

\* NativePort.postMessage: _send is ipcRenderer.send since _init.
NativePostMessage ==
    /\ portState # "none"
    /\ posted < MaxNativePosts
    /\ posted' = posted + 1
    /\ nativeIpc' = Append(nativeIpc, [kind |-> "message", body |-> posted + 1])
    /\ UNCHANGED <<hostMap, launchPc, connected, process, sender,
                   hostListening, pending, child, stdin, toRenderer, portState,
                   spawns, kills, disconnectsSent, destroyed, destroyCalls,
                   descriptor, searched,
                   executable, flushed, sendNativeVars, nativeFrame>>

\* NativePort.disconnect
NativeDisconnect ==
    /\ portState = "connected"
    /\ portState' = "disconnected"
    /\ nativeIpc' = Append(nativeIpc, [kind |-> "disconnectNative", body |-> 0])
    /\ UNCHANGED <<hostMap, launchPc, connected, process, sender,
                   hostListening, pending, child, stdin, toRenderer, posted,
                   spawns, kills, disconnectsSent, destroyed, destroyCalls,
                   descriptor, searched,
                   executable, flushed, sendNativeVars, nativeFrame>>

\* The renderer gets 'crx-native-msg-<id>-disconnect': the first one calls
\* NativePort._disconnect, which is disconnect(); once() ignores the others.
NativeNotified ==
    /\ toRenderer > 0
    /\ toRenderer' = toRenderer - 1
    /\ IF portState = "connected" /\ disconnectsSent - toRenderer = 0
       THEN /\ portState' = "disconnected"
            /\ nativeIpc' = Append(nativeIpc,
                                   [kind |-> "disconnectNative", body |-> 0])
       ELSE UNCHANGED <<portState, nativeIpc>>
    /\ UNCHANGED <<hostMap, launchPc, connected, process, sender,
                   hostListening, pending, child, stdin, posted, spawns, kills,
                   disconnectsSent, destroyed, destroyCalls, descriptor,
                   searched, executable, flushed,
                   sendNativeVars, nativeFrame>>

\* --- the main process

\* The main process takes the next IPC message of the renderer.
NativeIpcReceive ==
    /\ nativeIpc # <<>>
    /\ nativeIpc' = Tail(nativeIpc)
    /\ LET m == Head(nativeIpc)
       IN  CASE m.kind = "connectNative" ->
                  \* RuntimeAPI.connectNative: new NativeMessagingHost
                  /\ hostMap' = TRUE
                  /\ launchPc' = "config"
                  /\ SetNative([NativeState EXCEPT !.connected = FALSE,
                                                   !.sender = TRUE,
                                                   !.listening = TRUE])
             [] m.kind = "message" ->
                  \* receiveExtensionMessage, when it is still on
                  /\ SetNative(IF hostListening THEN send(NativeState, m.body)
                               ELSE NativeState)
                  /\ UNCHANGED <<hostMap, launchPc>>
             [] m.kind = "disconnectNative" ->
                  \* RuntimeAPI.disconnectNative
                  /\ SetNative(IF hostMap THEN destroy(NativeState)
                               ELSE NativeState)
                  /\ hostMap' = FALSE
                  /\ UNCHANGED launchPc
    /\ UNCHANGED <<portState, posted, spawns, descriptor, searched,
                   executable, flushed,
                   sendNativeVars, nativeFrame>>

\* launch(): readNativeMessagingHostConfig resolves; no descriptor or an
\* origin that is not allowed ends the launch with destroy().
LaunchConfigRead(files) ==
    LET config == readNativeMessagingHostConfig(files) IN
    /\ launchPc = "config"
    /\ searched' = files
    /\ descriptor' = config
    /\ launchPc' = launchAfterConfig(config)
    /\ SetNative(IF launchAfterConfig(config) = "failed"
                 THEN destroy(NativeState) ELSE NativeState)
    /\ UNCHANGED <<hostMap, portState, nativeIpc, posted, spawns, executable,
                   flushed, sendNativeVars, nativeFrame>>

\* launch(): getConfigSearchPaths throws on a platform it does not know, so
\* `ready` is rejected; the await of sendNativeMessage throws and its promise
\* is rejected.
LaunchUnsupportedPlatform ==
    /\ launchPc = "config"
    /\ launchPc' = "threw"
    /\ request' = IF request = "awaitingReady" THEN "rejected" ELSE request
    /\ UNCHANGED <<hostMap, connected, process, sender, hostListening,
                   pending, child, stdin, portState, nativeIpc, toRenderer,
                   posted, spawns, kills, disconnectsSent, destroyed,
                   descriptor, searched, executable, flushed, destroyCalls,
                   keepAlive, resolveResponse, replies, nativeMsgs,
                   nativeFrame>>

\* RuntimeAPI.sendNativeMessage: a NativeMessagingHost with keepAlive false
\* is made and its `ready` awaited.
SendNativeMessage ==
    /\ portState = "none"
    /\ request = "none"
    /\ launchPc = "none"
    /\ request' = "awaitingReady"
    /\ keepAlive' = FALSE
    /\ launchPc' = "config"
    /\ SetNative([NativeState EXCEPT !.connected = FALSE, !.sender = TRUE])
    /\ UNCHANGED <<hostMap, portState, nativeIpc, posted, spawns, descriptor,
                   searched, executable, flushed, resolveResponse, replies,
                   nativeMsgs, nativeFrame>>

\* sendNativeMessage after `await host.ready`, whichever way launch()
\* returned: host.sendAndReceive(message) sends and sets resolveResponse.
ReadyResolved ==
    /\ request = "awaitingReady"
    /\ launchPc \in {"failed", "spawned"}
    /\ request' = "awaitingReply"
    /\ resolveResponse' = TRUE
    /\ posted' = posted + 1
    /\ SetNative(send(NativeState, posted + 1))
    /\ UNCHANGED <<hostMap, launchPc, portState, nativeIpc, spawns,
                   descriptor, searched, executable, flushed, keepAlive,
                   replies, nativeMsgs, nativeFrame>>

\* The child answers a message it read: stdout 'data' -> receive(data), with
\* one whole frame in data.
ChildReply ==
    /\ child = "running"
    /\ replies < Len(stdin)
    /\ replies' = replies + 1
    /\ IF keepAlive /\ sender
       THEN /\ nativeMsgs' = nativeMsgs + 1
            /\ UNCHANGED request
       ELSE /\ request' = IF resolveResponse /\ request = "awaitingReply"
                           THEN "resolved" ELSE request
            /\ UNCHANGED nativeMsgs
    /\ UNCHANGED <<hostMap, launchPc, connected, process, sender,
                   hostListening, pending, child, stdin, portState, nativeIpc,
                   toRenderer, posted, spawns, kills, disconnectsSent,
                   destroyed, descriptor, searched, executable, flushed,
                   destroyCalls, keepAlive, resolveResponse, nativeFrame>>

\* launch(): fs.stat settles; not a file ends the launch with destroy(),
\* a file is spawned, connected is set and the pending messages are sent.
LaunchStat(stat) ==
    /\ launchPc = "stat"
    /\ executable' = stat
    /\ IF ~IsFile(stat)
       THEN /\ launchPc' = "failed"
            /\ SetNative(destroy(NativeState))
            /\ UNCHANGED <<spawns, flushed>>
       ELSE /\ launchPc' = "spawned"
            /\ spawns' = spawns + 1
            /\ flushed' = Len(pending)
            /\ LET spawned == [NativeState EXCEPT !.process = TRUE,
                                                  !.child = "running",
                                                  !.connected = TRUE]
                   sent == SendEach(spawned, spawned.pending, 1)
               IN  SetNative([sent EXCEPT !.pending = <<>>])
    /\ UNCHANGED <<hostMap, portState, nativeIpc, posted, descriptor, searched,
                   sendNativeVars, nativeFrame>>

\* The child exits, by itself or after kill(): process.on('exit') -> destroy()
ChildExit ==
    /\ child \in {"running", "killed"}
    /\ SetNative(destroy([NativeState EXCEPT !.child = "dead"]))
    /\ UNCHANGED <<hostMap, launchPc, portState, nativeIpc, posted, spawns,
                   descriptor, searched, executable, flushed, sendNativeVars,
                   nativeFrame>>

\* The child could not be started or signalled: process.on('error') ->
\* destroy()
ChildError ==
    /\ child = "running"
    /\ SetNative(destroy(NativeState))
    /\ UNCHANGED <<hostMap, launchPc, portState, nativeIpc, posted, spawns,
                   descriptor, searched, executable, flushed, sendNativeVars,
                   nativeFrame>>

InitNative ==
    /\ hostMap = FALSE
    /\ launchPc = "none"
    /\ connected = FALSE
    /\ process = FALSE
    /\ sender = FALSE
    /\ hostListening = FALSE
    /\ pending = <<>>
    /\ child = "none"
    /\ stdin = <<>>
    /\ portState = "none"
    /\ nativeIpc = <<>>
    /\ toRenderer = 0
    /\ posted = 0
    /\ spawns = 0
    /\ kills = 0
    /\ disconnectsSent = 0
    /\ destroyed = FALSE
    /\ descriptor = NoConfig
    /\ executable = "unknown"
    /\ flushed = 0
    /\ keepAlive = TRUE
    /\ resolveResponse = FALSE
    /\ request = "none"
    /\ replies = 0
    /\ nativeMsgs = 0
    /\ destroyCalls = 0
    /\ searched = <<>>

NativeNext ==
    \/ ConnectNative
    \/ NativePostMessage
    \/ NativeDisconnect
    \/ NativeNotified
    \/ NativeIpcReceive
    \/ \E files \in SearchResults : LaunchConfigRead(files)
    \/ LaunchUnsupportedPlatform
    \/ SendNativeMessage
    \/ ReadyResolved
    \/ ChildReply
    \/ \E s \in Executables : LaunchStat(s)
    \/ ChildExit
    \/ ChildError

\* ------------------------------------------- native messaging: the framing

\* Characters of the JSON text of a message, at most so many.
MaxChars == 2
\* Frames the child writes, and the bytes of the payload of one.
MaxFrames == 2
MaxPayload == 2

\* One character of each UTF-8 width: U+0061, U+00E9, U+20AC and U+1F600.
Chars == {"a", "e-acute", "euro", "emoji"}
Utf8Width(c) ==
    CASE c = "a" -> 1 [] c = "e-acute" -> 2 [] c = "euro" -> 3 [] c = "emoji" -> 4
\* UTF-16 code units: what String.prototype.length counts.
Utf16Units(c) == IF c = "emoji" THEN 2 ELSE 1

\* JSON.stringify(json): the text of a message.
JsonTexts == UNION {[1..n -> Chars] : n \in 1..MaxChars}

\* The bytes of a buffer: a byte of the length, the k-th byte of the UTF-8
\* encoding of a character, or a zero left by Buffer.alloc.
LengthByte(v) == [char |-> "length", k |-> v]
CharByte(c, k) == [char |-> c, k |-> k]
ZeroByte == [char |-> "zero", k |-> 0]

\* message.length
RECURSIVE StringLength(_)
StringLength(message) ==
    IF message = <<>> THEN 0
    ELSE Utf16Units(Head(message)) + StringLength(Tail(message))

\* The UTF-8 encoding of a text.
RECURSIVE Utf8(_)
Utf8(message) ==
    IF message = <<>> THEN <<>>
    ELSE [k \in 1..Utf8Width(Head(message)) |-> CharByte(Head(message), k)]
         \o Utf8(Tail(message))

\* buffer.writeUInt32LE(value, 0)
writeUInt32LE(value) ==
    <<LengthByte(value % 256), LengthByte((value \div 256) % 256),
      LengthByte((value \div 65536) % 256),
      LengthByte((value \div 16777216) % 256)>>

\* buffer.readUInt32LE(0), of four bytes of a length
readUInt32LE(data) ==
    data[1].k + 256 * data[2].k + 65536 * data[3].k + 16777216 * data[4].k

\* buffer.write(message, 4) into the `size` bytes after the length: the
\* characters that fit whole are written, the rest of the buffer stays zero.
RECURSIVE BufferWrite(_, _)
BufferWrite(message, size) ==
    IF message # <<>> /\ Utf8Width(Head(message)) <= size
    THEN Utf8(<<Head(message)>>)
         \o BufferWrite(Tail(message), size - Utf8Width(Head(message)))
    ELSE [i \in 1..size |-> ZeroByte]

\* send(), connected: Buffer.alloc(4 + message.length), writeUInt32LE,
\* write.
Frame(message) ==
    writeUInt32LE(StringLength(message))
    \o BufferWrite(message, StringLength(message))

\* The bytes of the child: the value of a length byte, or a byte of the
\* payload, each with the frame and the place in it that it was written at.
ChildFrame(f, n) ==
    [i \in 1..4 |-> [frame |-> f, pos |-> i, k |-> writeUInt32LE(n)[i].k]]
    \o [i \in 1..n |-> [frame |-> f, pos |-> 4 + i, k |-> 0]]

\* data starts with the four length bytes of a frame.
StartsWithLength(data) ==
    /\ Len(data) >= 4
    /\ \A i \in 1..4 : data[i].pos = i /\ data[i].frame = data[1].frame

\* NativeMessagingHost.receive(data): the length is read at offset 0 and the
\* bytes after it, up to that length or the end of data, are parsed.  Fewer
\* than four bytes make readUInt32LE throw; bytes that are no length, and a
\* payload cut short, make JSON.parse throw or give another value.
receive(data) ==
    IF ~StartsWithLength(data) THEN [kind |-> "fails", frame |-> 0]
    ELSE LET length == readUInt32LE(data)
             last == IF 4 + length <= Len(data) THEN 4 + length ELSE Len(data)
             text == SubSeq(data, 5, last)
         IN  IF Len(text) = length
             THEN [kind |-> "message", frame |-> data[1].frame]
             ELSE [kind |-> "fails", frame |-> 0]

wireFrame == <<workerVars, requestVars, portVars, routerVars, nativeVars,
               objectVars>>

\* send(json) on a connected host.
WireSend(message) ==
    /\ sentJson' = message
    /\ sentFrame' = Frame(message)
    /\ UNCHANGED <<childWrote, stdout, received, receiveFailures, wireFrame>>

\* The child writes a message of n payload bytes, framed, to its stdout.
ChildWrite(n) ==
    /\ Len(childWrote) < MaxFrames
    /\ childWrote' = Append(childWrote, n)
    /\ stdout' = stdout \o ChildFrame(Len(childWrote) + 1, n)
    /\ UNCHANGED <<sentJson, sentFrame, received, receiveFailures, wireFrame>>

\* process.stdout emits 'data' with the next k bytes of the stream.
StdoutData(k) ==
    /\ k <= Len(stdout)
    /\ stdout' = SubSeq(stdout, k + 1, Len(stdout))
    /\ LET got == receive(SubSeq(stdout, 1, k))
       IN  IF got.kind = "message"
           THEN /\ received' = Append(received, got.frame)
                /\ UNCHANGED receiveFailures
           ELSE /\ receiveFailures' = receiveFailures + 1
                /\ UNCHANGED received
    /\ UNCHANGED <<sentJson, sentFrame, childWrote, wireFrame>>

InitWire ==
    /\ sentJson = <<>>
    /\ sentFrame = <<>>
    /\ childWrote = <<>>
    /\ stdout = <<>>
    /\ received = <<>>
    /\ receiveFailures = 0

WireNext ==
    \/ \E message \in JsonTexts : WireSend(message)
    \/ \E n \in 1..MaxPayload : ChildWrite(n)
    \/ \E k \in 1..(MaxFrames * (4 + MaxPayload)) : StdoutData(k)

\* ------------------------------------- port objects and their onDisconnect

MaxReentry == 1
MaxNotices == 2

PortClasses == {"NativePort", "RuntimePort", "BackgroundPort", "SWPort"}

\* A port object after connectNative / connectPort / the onConnect handler
\* returned: connected, and wired to the disconnect notification of the
\* other side.  fired counts the runs of its onDisconnect listeners.
NewPort == [connected |-> TRUE, routed |-> TRUE, fired |-> 0, notified |-> 0]

\* onDisconnect._emit with a listener that calls port.disconnect() itself
\* during its first `calls` runs; Again is that nested call.
RECURSIVE NativePort_disconnect(_, _)
NativePort_disconnect(o, calls) ==
    IF o.connected
    THEN LET emitted == [o EXCEPT !.fired = @ + 1]
             listened == IF calls > 0
                         THEN NativePort_disconnect(emitted, calls - 1)
                         ELSE emitted
         IN  [listened EXCEPT !.connected = FALSE]
    ELSE o

NativePort__disconnect(o, calls) == NativePort_disconnect(o, calls)

\* RuntimePort._disconnect and BackgroundPort._disconnect: connected is
\* cleared before the listeners run, so the nested call returns at once.
Port__disconnect(o, calls) ==
    IF o.connected
    THEN [o EXCEPT !.connected = FALSE, !.fired = @ + 1]
    ELSE o

\* RuntimePort.disconnect: disconnectPort, then _disconnect
RuntimePort_disconnect(o, calls) ==
    IF o.connected THEN Port__disconnect(o, calls) ELSE o

\* BackgroundPort.disconnect
BackgroundPort_disconnect(o, calls) ==
    IF o.connected
    THEN [o EXCEPT !.connected = FALSE, !.fired = @ + 1]
    ELSE o

\* SWPort.disconnect: no listener runs; delete activePorts[portId]
SWPort_disconnect(o, calls) ==
    IF ~o.connected THEN o
    ELSE [o EXCEPT !.connected = FALSE, !.routed = FALSE]

\* SWPort._handleDisconnect: the listeners run whatever _connected was
SWPort__handleDisconnect(o, calls) ==
    [o EXCEPT !.connected = FALSE, !.fired = @ + 1, !.routed = FALSE]

\* port.disconnect() called by the extension's code
disconnect(class, o, calls) ==
    CASE class = "NativePort" -> NativePort_disconnect(o, calls)
      [] class = "RuntimePort" -> RuntimePort_disconnect(o, calls)
      [] class = "BackgroundPort" -> BackgroundPort_disconnect(o, calls)
      [] class = "SWPort" -> SWPort_disconnect(o, calls)

\* The disconnect notification of the other side arrives in the context:
\* the once-listener of ipcRenderer (NativePort, RuntimePort), the lookup in
\* backgroundPorts followed by its delete, the lookup in activePorts.
Notified(class, o, calls) ==
    LET seen == [o EXCEPT !.notified = @ + 1] IN
    IF ~o.routed THEN seen
    ELSE CASE class = "NativePort" ->
                [NativePort__disconnect(seen, calls) EXCEPT !.routed = FALSE]
           [] class = "RuntimePort" ->
                [Port__disconnect(seen, calls) EXCEPT !.routed = FALSE]
           [] class = "BackgroundPort" ->
                [Port__disconnect(seen, calls) EXCEPT !.routed = FALSE]
           [] class = "SWPort" -> SWPort__handleDisconnect(seen, calls)

objectFrame == <<workerVars, requestVars, portVars, routerVars, nativeVars,
                 wireVars>>
portObjectFrame == <<objectFrame, eventVars, swRequests>>

LocalDisconnect(class, calls) ==
    /\ portObjects' = [portObjects EXCEPT
                         ![class] = disconnect(class, @, calls)]
    /\ UNCHANGED portObjectFrame

RemoteDisconnect(class, calls) ==
    /\ portObjects[class].notified < MaxNotices
    /\ portObjects' = [portObjects EXCEPT
                         ![class] = Notified(class, @, calls)]
    /\ UNCHANGED portObjectFrame

InitPortObjects ==
    /\ portObjects = [class \in PortClasses |-> NewPort]

PortObjectNext ==
    \/ \E class \in PortClasses, calls \in 0..MaxReentry :
          LocalDisconnect(class, calls)
    \/ \E class \in PortClasses, calls \in 0..MaxReentry :
          RemoteDisconnect(class, calls)

\* ---------------------------------------- event.ts: the listeners of a context

MaxCallbacks == 2

LocalEvents == {"runtime.onConnect", "runtime.port-message"}

\* A function object: the callback itself, or the anonymous function that
\* addExtensionListener wraps around it.
Function(kind, callback) == [kind |-> kind, of |-> callback]

\* EventEmitter.removeListener: the most recently added listener that is
\* the very function passed, if there is one.
RECURSIVE EmitterRemove(_, _)
EmitterRemove(fns, fn) ==
    IF fns = <<>> THEN <<>>
    ELSE IF fns[Len(fns)] = fn THEN SubSeq(fns, 1, Len(fns) - 1)
    ELSE Append(EmitterRemove(SubSeq(fns, 1, Len(fns) - 1), fn), fns[Len(fns)])

Has(fns, fn) == \E i \in 1..Len(fns) : fns[i] = fn

\* What add- and removeExtensionListener read and write.
EventState == [listenerMap |-> listenerMap, ipcListeners |-> ipcListeners,
               routerListening |-> routerListening]

\* addExtensionListener(extensionId, name, callback)
addExtensionListener(E, name, callback) ==
    LET listenerCount == E.listenerMap[name] IN
    [E EXCEPT
       !.routerListening[name] = IF listenerCount = 0 THEN TRUE ELSE @,
       !.listenerMap[name] = listenerCount + 1,
       !.ipcListeners[name] = Append(@, Function("wrapper", callback))]

\* removeExtensionListener(extensionId, name, callback)
removeExtensionListener(E, name, callback) ==
    LET listenerCount == E.listenerMap[name]
        counted ==
            IF listenerCount = 0 THEN E
            ELSE IF listenerCount <= 1
            THEN [E EXCEPT !.listenerMap[name] = 0,
                           !.routerListening[name] = FALSE]
            ELSE [E EXCEPT !.listenerMap[name] = listenerCount - 1]
    IN [counted EXCEPT
          !.ipcListeners[name] =
              EmitterRemove(@, Function("callback", callback))]

SetEventState(E) ==
    /\ listenerMap' = E.listenerMap
    /\ ipcListeners' = E.ipcListeners
    /\ routerListening' = E.routerListening

eventFrame == <<objectFrame, portObjects, swRequests>>

NoDelivery == [name |-> "none", ran |-> <<>>, registered |-> <<>>]
NoLocalRemoval == [name |-> "none", callback |-> "none", known |-> FALSE,
              countBefore |-> 0, countAfter |-> 0]

\* The context's code adds a callback for an event.
AddListener(name, callback) ==
    /\ Len(ipcListeners[name]) < MaxCallbacks
    /\ SetEventState(addExtensionListener(EventState, name, callback))
    /\ registered' = [registered EXCEPT ![name] = Append(@, callback)]
    /\ lastRemoval' = NoLocalRemoval
    /\ UNCHANGED <<lastDelivery, eventFrame>>

\* The context's code removes a callback, added before or not.
RemoveListener(name, callback) ==
    /\ SetEventState(removeExtensionListener(EventState, name, callback))
    /\ registered' = [registered EXCEPT ![name] = EmitterRemove(@, callback)]
    /\ lastRemoval' = [name |-> name, callback |-> callback,
                       known |-> Has(registered[name], callback),
                       countBefore |-> listenerMap[name],
                       countAfter |-> listenerMap'[name]]
    /\ UNCHANGED <<lastDelivery, eventFrame>>

\* The router sends the event to the context, which it does to a context
\* that asked for it: every listener on the crx-<name> channel runs.
EventDelivered(name) ==
    /\ routerListening[name]
    /\ lastDelivery' = [name |-> name,
                        ran |-> [i \in 1..Len(ipcListeners[name]) |->
                                   ipcListeners[name][i].of],
                        registered |-> registered[name]]
    /\ lastRemoval' = NoLocalRemoval
    /\ UNCHANGED <<listenerMap, ipcListeners, registered, routerListening,
                   eventFrame>>

InitEvents ==
    /\ listenerMap = [name \in LocalEvents |-> 0]
    /\ ipcListeners = [name \in LocalEvents |-> <<>>]
    /\ registered = [name \in LocalEvents |-> <<>>]
    /\ routerListening = [name \in LocalEvents |-> FALSE]
    /\ lastDelivery = NoDelivery
    /\ lastRemoval = NoLocalRemoval


EventNext ==
    \/ \E name \in LocalEvents, callback \in Callbacks :
          AddListener(name, callback)
    \/ \E name \in LocalEvents, callback \in Callbacks :
          RemoveListener(name, callback)
    \/ \E name \in LocalEvents : EventDelivered(name)

\* ------------------------------------ the worker's runtime.onMessage dispatch

MaxSwRequests == 2
MaxOnMessage == 2

SwRequestIds == 1..MaxSwRequests

\* What a listener of runtime.onMessage does with (message, sender,
\* sendResponse): it returns nothing, throws, calls sendResponse at once,
\* calls it and returns true, returns true and calls it later, or returns a
\* promise.
Behaviours == {"nothing", "throws", "responds", "respondsAndTrue", "true",
               "promise"}

RECURSIVE SeqsUpTo(_, _)
SeqsUpTo(S, n) ==
    IF n = 0 THEN {<<>>}
    ELSE LET shorter == SeqsUpTo(S, n - 1)
         IN  shorter \cup {Append(q, x) : q \in shorter, x \in S}

NoSwRequest == [dispatched |-> FALSE, listeners |-> <<>>, responded |-> FALSE,
                willRespondAsync |-> FALSE, replies |-> <<>>, deferred |-> 0]

sendResponse_Unguarded(r, response) ==
    [r EXCEPT !.responded = TRUE, !.replies = Append(@, response)]

\* sendResponse: electron.sendIpc('crx-runtime-response'), once
sendResponse(r, response) ==
    IF ~r.responded
    THEN [r EXCEPT !.responded = TRUE, !.replies = Append(@, response)]
    ELSE r

\* One round of the loop over onMessageListeners; the reply of listener i
\* is i.
CallListener(r, behaviour, i) ==
    CASE behaviour = "responds" -> sendResponse(r, i)
      [] behaviour = "respondsAndTrue" ->
            [sendResponse(r, i) EXCEPT !.willRespondAsync = TRUE]
      [] behaviour \in {"true", "promise"} ->
            [r EXCEPT !.willRespondAsync = TRUE, !.deferred = @ + 1]
      [] OTHER -> r

RECURSIVE CallListeners(_, _, _)
CallListeners(r, behaviours, i) ==
    IF i > Len(behaviours) THEN r
    ELSE CallListeners(CallListener(r, behaviours[i], i), behaviours, i + 1)

\* electron.onIpc('crx-runtime.onMessage')
onMessage(behaviours) ==
    LET start == [NoSwRequest EXCEPT !.dispatched = TRUE,
                                     !.listeners = behaviours]
        called == CallListeners(start, behaviours, 1)
    IN  IF ~called.willRespondAsync /\ ~called.responded
        THEN sendResponse(called, "undefined")
        ELSE called

dispatchFrame == <<objectFrame, portObjects, eventVars>>

\* A request reaches the worker while `behaviours` are its listeners.
MessageReceived(id, behaviours) ==
    /\ ~swRequests[id].dispatched
    /\ swRequests' = [swRequests EXCEPT ![id] = onMessage(behaviours)]
    /\ UNCHANGED dispatchFrame

\* A listener that returned true calls sendResponse, or the promise of a
\* listener settles: then -> sendResponse(result), catch ->
\* sendResponse(undefined).
LaterResponse(id, response) ==
    /\ swRequests[id].deferred > 0
    /\ swRequests' = [swRequests EXCEPT
                        ![id] = [sendResponse(@, response) EXCEPT
                                    !.deferred = @ - 1]]
    /\ UNCHANGED dispatchFrame

InitDispatch ==
    /\ swRequests = [id \in SwRequestIds |-> NoSwRequest]

InitObjects == InitPortObjects /\ InitEvents /\ InitDispatch

DispatchNext ==
    \/ \E id \in SwRequestIds, behaviours \in SeqsUpTo(Behaviours, MaxOnMessage) :
          MessageReceived(id, behaviours)
    \/ \E id \in SwRequestIds, response \in {"late", "undefined"} :
          LaterResponse(id, response)

\* ------------------------------------------------------------ specification

InitWorkers ==
    /\ status = [v \in VersionIds |-> "none"]
    /\ starts = [v \in VersionIds |-> 0]
    /\ registeredWorkers = {}
    /\ ipcHandlers = [v \in VersionIds \cup {WebVersionId} |-> 0]
    /\ lastDispatch = [versionId |-> 0, start |-> 0, handled |-> 0]

InitRequests ==
    /\ nextMessageId = 1
    /\ pendingResponses = {}
    /\ timeoutArmed = [m \in MessageIds |-> FALSE]
    /\ settleCalls = [m \in MessageIds |-> <<>>]
    /\ sendPath = [m \in MessageIds |-> "idle"]
    /\ firstOutcome = [m \in MessageIds |-> "none"]
    /\ sentOn = [m \in MessageIds |-> {}]
    /\ resolvedBy = [m \in MessageIds |-> "none"]

InitOther == InitRouter /\ InitNative /\ InitWire /\ InitObjects

Init ==
    InitWorkers /\ InitRequests /\ InitPorts /\ manifestVersion = 3 /\ InitOther

WorkerNext ==
    \/ \E v \in VersionIds : WorkerStarting(v)
    \/ \E v \in VersionIds : WorkerStartingAgain(v)
    \/ \E v \in VersionIds : WorkerRunning(v)
    \/ \E v \in VersionIds : WorkerStopping(v)
    \/ \E v \in VersionIds : WorkerStopped(v)
    \/ \E s \in RunningStatuses : WebWorkerStatus(s)

Next ==
    \/ WorkerNext
    \/ SendMessage
    \/ \E m \in MessageIds : StartWorkerThen(m)
    \/ \E m \in MessageIds : StartWorkerThenThrows(m)
    \/ \E m \in MessageIds : StartWorkerCatch(m)
    \/ \E m \in MessageIds, r \in ResponseValues : ReplyOnIpcMain(m, r)
    \/ \E v \in VersionIds, m \in MessageIds, r \in ResponseValues :
          ReplyOnWorkerIpc(v, m, r)
    \/ \E m \in MessageIds : TimeoutFires(m)

\* Requests and the worker lifecycle.
Spec == Init /\ [][Next]_vars

PortInit ==
    /\ InitWorkers /\ InitRequests /\ InitPorts /\ manifestVersion \in {2, 3}
    /\ InitOther

PortStep == WorkerNext \/ PortNext

\* The same with the timers running: the setTimeout of a request that is
\* not cleared fires after 30 seconds.
RequestFairSpec ==
    Spec /\ \A m \in MessageIds : WF_vars(TimeoutFires(m))

\* Ports and the worker lifecycle, for an MV3 and for an MV2 extension.
PortSpec == PortInit /\ [][PortStep]_vars

\* The same with the sweep of setInterval coming round again and again: the
\* timer fires every 60 seconds for as long as the process lives.
PortFairSpec == PortSpec /\ WF_vars(PortCleanup)

\* The service worker of the extension was started once and runs.
ScopeInit ==
    /\ status = [v \in VersionIds |-> IF v = 1 THEN "running" ELSE "none"]
    /\ starts = [v \in VersionIds |-> IF v = 1 THEN 1 ELSE 0]
    /\ registeredWorkers = {1}
    /\ ipcHandlers = [v \in VersionIds \cup {WebVersionId} |->
                        IF v = 1 THEN 1 ELSE 0]
    /\ lastDispatch = [versionId |-> 0, start |-> 0, handled |-> 0]
    /\ InitRequests /\ InitPorts /\ manifestVersion = 3 /\ InitOther

ScopeNext ==
    \/ SendMessage
    \/ \E m \in MessageIds : StartWorkerThen(m)
    \/ \E m \in MessageIds : StartWorkerCatch(m)
    \/ \E m \in MessageIds, r \in ResponseValues : ReplyOnIpcMain(m, r)
    \/ \E v \in VersionIds, m \in MessageIds, r \in ResponseValues :
          ReplyOnWorkerIpc(v, m, r)
    \/ \E m \in MessageIds : TimeoutFires(m)
    \/ \E p \in TablePorts : IpcConnect(p)
    \/ \E p \in TablePorts, w \in VersionIds \cup {NoWorker} :
          IpcConnectSettled(p, w)
    \/ \E p \in TablePorts, message \in Bodies : IpcPortMsg(p, message)
    \/ \E p \in TablePorts : IpcPortDisconnect(p)
    \/ \E v \in VersionIds, p \in TablePorts, type \in {"msg", "disconnect"} :
          IpcFromWorker(v, p, type)
    \/ \E p \in TablePorts, type \in {"msg", "disconnect"} : IpcFromBg(p, type)

\* The requests and the port table under any IPC.
ScopeSpec == ScopeInit /\ [][ScopeNext]_vars

\* The listener registry of the router.
ListenerSpec == Init /\ [][ListenerNext]_vars

HandlerStep ==
    \/ HandlerNext
    \/ \E e \in ExtensionIds : ExtensionLoaded(e)
    \/ \E e \in ExtensionIds : ExtensionUnloaded(e)

\* The handlers of the router and the messages it dispatches.
HandlerSpec == Init /\ [][HandlerStep]_vars

\* One native messaging connection.
NativeSpec == Init /\ [][NativeNext]_vars

\* The framing of the messages to and from a native helper.
WireSpec == Init /\ [][WireNext]_vars

\* The port objects of a context alone.
PortObjectSpec == Init /\ [][PortObjectNext]_vars

\* The event listeners of a context alone.
EventSpec == Init /\ [][EventNext]_vars

\* The worker's dispatch of runtime.onMessage alone.
DispatchSpec == Init /\ [][DispatchNext]_vars

\* ------------------------------------------------------------------- claims

Created(m) == m < nextMessageId
ResolvedBy(m, how) ==
    \E i \in 1..Len(settleCalls[m]) : settleCalls[m][i].by = how

\* C1: every request created by sendMessage is settled by exactly one path:
\* while it is pending nothing has resolved it, once it is not pending it was
\* resolved exactly once, by whichever of the first reply that reached a
\* handler (on ipcMain or on a worker's IPC channel) and the timeout came
\* first, and later replies or duplicates add nothing.
C1_OneResolutionPathWins ==
    \A m \in MessageIds :
        /\ Len(settleCalls[m]) <= 1
        /\ Created(m) => (m \in pendingResponses <=> settleCalls[m] = <<>>)
        /\ ~Created(m) => m \notin pendingResponses /\ settleCalls[m] = <<>>
        /\ firstOutcome[m] = "none" => settleCalls[m] = <<>>
        /\ firstOutcome[m] = "timeout" =>
              settleCalls[m] = <<[fn |-> "resolve", by |-> "timeout",
                                  value |-> Undefined]>>
        /\ firstOutcome[m] \in ResponseValues =>
              settleCalls[m] = <<[fn |-> "resolve", by |-> "reply",
                                  value |-> firstOutcome[m]]>>

\* One request resolved by its timeout and one by a reply that came through a
\* worker's channel with two handler sets on it (the reply was handled twice).
C1_Witness ==
    \E m1, m2 \in MessageIds :
        /\ ResolvedBy(m1, "timeout")
        /\ ResolvedBy(m2, "reply")
        /\ lastDispatch.handled = 2

\* C7: the response, port-message and port-disconnect handlers are installed
\* at most once on the IPC channel of one worker version id.
C7_InstalledAtMostOnce ==
    \A v \in VersionIds : ipcHandlers[v] <= 1

\* C8: a message sent by a running worker whose version id was started for the
\* first time is handled by exactly one router-side handler set, whatever ran
\* and stopped before it.
C8_FreshInstanceHandledOnce ==
    /\ \A v \in VersionIds :
          starts[v] = 1 /\ status[v] \in {"starting", "running", "stopping"}
             => ipcHandlers[v] = 1 /\ v \in registeredWorkers
    /\ lastDispatch.versionId # 0 /\ lastDispatch.start = 1
          => lastDispatch.handled = 1

\* Instance a ran and stopped; instance b, a new id, runs and its reply was
\* handled once.
C8_Witness ==
    \E a, b \in VersionIds :
        /\ a # b
        /\ status[a] = "stopped"
        /\ status[b] = "running"
        /\ lastDispatch = [versionId |-> b, start |-> 1, handled |-> 1]

\* C9: reject is never called for a request, and a request whose timer fired
\* before any reply reached a handler is resolved with undefined.
C9_TimeoutResolvesUndefined ==
    \A m \in MessageIds :
        /\ \A i \in 1..Len(settleCalls[m]) : settleCalls[m][i].fn = "resolve"
        /\ firstOutcome[m] = "timeout" =>
              /\ settleCalls[m] # <<>>
              /\ settleCalls[m][1].fn = "resolve"
              /\ settleCalls[m][1].value = Undefined

\* Two requests timed out: one had been sent to the worker, one had gone the
\* fallback path because the worker could not be started.
C9_Witness ==
    \E m1, m2 \in MessageIds :
        /\ sendPath[m1] = "worker" /\ firstOutcome[m1] = "timeout"
        /\ sendPath[m2] = "event" /\ firstOutcome[m2] = "timeout"
        /\ settleCalls[m1] # <<>> /\ settleCalls[m2] # <<>>

\* C10: a request resolved by a reply carries that reply, its timer is
\* cancelled (so the timeout callback cannot fire any more) and its pending
\* entry is gone.
C10_ReplyCancelsTimer ==
    \A m \in MessageIds :
        ResolvedBy(m, "reply") =>
            /\ ~timeoutArmed[m]
            /\ m \notin pendingResponses
            /\ ~ResolvedBy(m, "timeout")
            /\ settleCalls[m][1].value = firstOutcome[m]
            /\ settleCalls[m][1].value \in ResponseValues

C10_Witness ==
    \E m \in MessageIds :
        /\ settleCalls[m] = <<[fn |-> "resolve", by |-> "reply", value |-> "r2"]>>
        /\ sendPath[m] = "worker"
        /\ ~timeoutArmed[m]

\* No pipe holds anything and no connect is waiting for the worker.
Quiescent ==
    /\ rendererToMain = <<>> /\ mainToPopup = <<>> /\ mainToWorker = <<>>
    /\ workerToMain = <<>> /\ mainToBg = <<>> /\ bgToMain = <<>>
    /\ \A p \in PortIds : connectPc[p] # "awaiting"

RangeOf(seq) == {seq[i] : i \in 1..Len(seq)}

\* The responder's end of port p is open.
ResponderOpen(p) ==
    \/ p \in activePorts
    \/ p \in backgroundPorts /\ bpConnected[p]

\* C2: messages posted on a port while connect was still waiting for the
\* worker are not lost: once the responder has its end of the port and the
\* pipes are empty, the responder has received every one of them.
C2_EarlyPostsDelivered ==
    \A p \in PortIds :
        Quiescent /\ ResponderOpen(p) /\ rpState[p] = "connected"
            => earlyPosts[p] \subseteq RangeOf(respRecv[p])

\* C3: no message is delivered to the onMessage listeners of a port that its
\* own side has already closed.
C3_NoDeliveryAfterClose == lateDeliveries = {}

\* C4: a port removed by a disconnect, whose other side was there to be told,
\* produced exactly one disconnect notification, however many disconnects
\* followed.
C4_ExactlyOneNotice ==
    \A p \in PortIds :
        /\ notices[p] <= 1
        /\ closed[p].by # "none" /\ closed[p].otherAlive => notices[p] = 1

\* C5: when one side has closed a port and the pipes are empty, the other
\* side, if it is alive, no longer holds the port open.
C5_DisconnectReachesOtherSide ==
    \A p \in PortIds :
        Quiescent /\ ~popupDestroyed =>
            /\ rpState[p] = "closed" => ~ResponderOpen(p)
            /\ closed[p].by = "responder" => rpState[p] # "connected"

\* C6: the multiplexer drops a port message for want of a transport only when
\* no worker is running: it never drops one because the worker recorded for
\* the port has stopped while another instance runs.
C6_StaleTransportReResolved ==
    \A d \in dropped : ~(d.why = "staleWorker" /\ d.live)

\* Each side numbers the messages it posts on a port 1, 2, ... in program
\* order: a sequence of bodies without repetition and in that order.
InPostedOrder(bodies) ==
    \A i, j \in DOMAIN bodies : i < j => bodies[i] < bodies[j]

\* C27: what the onMessage listeners of either side of a port got are
\* messages the other side posted on it, in the order posted and none twice.
C27_PortOrderKept ==
    \A p \in PortIds :
        /\ InPostedOrder(initRecv[p])
        /\ InPostedOrder(respRecv[p])

ReplyFor(m) ==
    \/ \E r \in ResponseValues : ReplyOnIpcMain(m, r)
    \/ \E v \in VersionIds, r \in ResponseValues : ReplyOnWorkerIpc(v, m, r)
PortEventFor(p) ==
    \/ \E message \in Bodies : IpcPortMsg(p, message)
    \/ IpcPortDisconnect(p)
    \/ \E v \in VersionIds, type \in {"msg", "disconnect"} :
          IpcFromWorker(v, p, type)
    \/ \E type \in {"msg", "disconnect"} : IpcFromBg(p, type)

\* The step left every request but m / every port but p as it was.
OtherRequestsUntouched(m) ==
    \A other \in MessageIds \ {m} :
        /\ (other \in pendingResponses') = (other \in pendingResponses)
        /\ timeoutArmed'[other] = timeoutArmed[other]
        /\ settleCalls'[other] = settleCalls[other]
OtherPortsUntouched(p) ==
    \A other \in TablePorts \ {p} :
        /\ ports'[other] = ports[other]
        /\ notices'[other] = notices[other]
        /\ closed'[other] = closed[other]

\* C29: a reply for request m resolves and removes the pending entry of m
\* and no other, and changes nothing when m is not pending; the timeout of m
\* leaves the other requests alone; a message or a disconnect on port p
\* leaves every other port record as it was.
C29_EventsTouchOnlyTheirEntry ==
    [][ /\ \A m \in MessageIds :
              ReplyFor(m) =>
                  /\ OtherRequestsUntouched(m)
                  /\ m \in pendingResponses =>
                        /\ m \notin pendingResponses'
                        /\ ~timeoutArmed'[m]
                        /\ Len(settleCalls'[m]) = Len(settleCalls[m]) + 1
                  /\ m \notin pendingResponses =>
                        UNCHANGED <<pendingResponses, timeoutArmed,
                                    settleCalls>>
        /\ \A m \in MessageIds : TimeoutFires(m) => OtherRequestsUntouched(m)
        /\ \A p \in TablePorts : PortEventFor(p) => OtherPortsUntouched(p)
      ]_vars

\* One request was resolved while another is still pending, and one port was
\* disconnected while another is still in the table.
C29_Witness ==
    /\ \E m, other \in MessageIds :
          /\ settleCalls[m] # <<>>
          /\ other \in pendingResponses
    /\ \E p, other \in TablePorts :
          /\ closed[p].by # "none"
          /\ ports[other].present

\* C30: the pending table holds exactly the requests created and not yet
\* resolved, at all times; and every request created is resolved at some
\* later time, by a reply or by its timer, and is then out of the table.
C30_EveryRequestResolved ==
    /\ [](pendingResponses =
             {m \in MessageIds : Created(m) /\ settleCalls[m] = <<>>})
    /\ \A m \in MessageIds :
          Created(m) ~> (settleCalls[m] # <<>> /\ m \notin pendingResponses)

\* One request was resolved by a reply and another by its timer, and the
\* table is empty.
C30_Witness ==
    /\ pendingResponses = {}
    /\ \E m, other \in MessageIds :
          ResolvedBy(m, "reply") /\ ResolvedBy(other, "timeout")

\* ------------------------------------------------- claims about the router

Sent == lastEvent.name # "none"
DeliveredTo(listener) ==
    \E i \in 1..Len(lastEvent.deliveries) : lastEvent.deliveries[i].to = listener
InBucketAt(i) == lastEvent.bucket[i]
Matching(listener) ==
    lastEvent.target = NoExtension \/ listener.extensionId = lastEvent.target
LiveAtSend(listener) ==
    listener.type = "service-worker" \/ listener.host \notin lastEvent.dead
HasDeadListener ==
    \E i \in 1..Len(lastEvent.bucket) :
        Matching(InBucketAt(i)) /\ ~LiveAtSend(InBucketAt(i))

\* C11: when sendEvent meets a frame listener whose host is destroyed, every
\* other matching listener of the bucket whose endpoint is live, before and
\* after the dead one, still gets the event.
C11_DeadListenerBlocksNobody ==
    Sent /\ HasDeadListener =>
        \A i \in 1..Len(lastEvent.bucket) :
            Matching(InBucketAt(i)) /\ LiveAtSend(InBucketAt(i))
                => DeliveredTo(InBucketAt(i))

\* C12: no bucket of the registry holds two listeners with the same endpoint
\* identity (the host of a frame listener, the extension id of a
\* service-worker listener), and addListener for an endpoint that is already
\* in the bucket leaves the registry unchanged.
C12_OneListenerPerEndpoint ==
    /\ \A n \in DOMAIN listeners :
          \A i, j \in 1..Len(listeners[n]) :
              i # j => EndpointIdentity(listeners[n][i])
                           # EndpointIdentity(listeners[n][j])
    /\ lastAdd.sameEndpoint => ~lastAdd.changed

\* C12, amended: no bucket of the registry holds two listeners with the same
\* owner id and the same endpoint identity, and addListener of a listener
\* whose owner id and endpoint are already in the bucket leaves the registry
\* unchanged.
C12_OneListenerPerOwnerAndEndpoint ==
    /\ \A n \in DOMAIN listeners :
          \A i, j \in 1..Len(listeners[n]) :
              i # j =>
                  \/ listeners[n][i].extensionId # listeners[n][j].extensionId
                  \/ EndpointIdentity(listeners[n][i])
                         # EndpointIdentity(listeners[n][j])
    /\ lastAdd.found => ~lastAdd.changed

\* addListener was called for a listener already there, with the content
\* script of another extension registered for the same tab.
C12_Witness ==
    /\ lastAdd.found
    /\ \E n \in DOMAIN listeners :
          \E i, j \in 1..Len(listeners[n]) :
              /\ i # j
              /\ listeners[n][i].host = "tab"
              /\ listeners[n][j].host = "tab"

\* C13: sendEvent delivers only to listeners that were added for the event
\* name and not removed since; a sendEvent(O, E) after O's listener for E was
\* added and removed, with no other listener of O for E left, delivers to
\* nobody.
C13_RemovedListenerGetsNothing ==
    Sent =>
        /\ \A i \in 1..Len(lastEvent.deliveries) :
              <<lastEvent.name, lastEvent.deliveries[i].to>> \in wanted
        /\ ( /\ lastEvent.target # NoExtension
             /\ ~\E w \in wanted : /\ w[1] = lastEvent.name
                                   /\ w[2].extensionId = lastEvent.target )
               => lastEvent.deliveries = <<>>

\* addListener(O, E), removeListener(O, E), then sendEvent(O, E): nothing is
\* delivered, while a listener of another owner is registered for E.
C13_Witness ==
    /\ Sent
    /\ lastEvent.removed # NoRemoval
    /\ lastEvent.removed[1] = lastEvent.name
    /\ lastEvent.removed[2].extensionId = lastEvent.target
    /\ lastEvent.bucket # <<>>
    /\ lastEvent.deliveries = <<>>

\* C14: once the destroyed callback of a host has run, no bucket holds a
\* frame listener of that host, and no sendEvent delivers to it.
C14_DestroyedHostPruned ==
    \A h \in Hosts :
        hostState[h] = "destroyed" =>
            /\ \A n \in DOMAIN listeners :
                  \A i \in 1..Len(listeners[n]) : listeners[n][i].host # h
            /\ \A i \in 1..Len(lastEvent.deliveries) :
                  lastEvent.deliveries[i].to.host # h

\* The destroyed callback removed the listeners of a host from the buckets of
\* two event names.
C14_Witness ==
    /\ lastPrune.host # NoHost
    /\ Cardinality(lastPrune.names) >= 2
    /\ hostState[lastPrune.host] = "destroyed"

\* C15: sendEvent delivers only to listeners registered for the event name
\* whose owner is the target; a broadcast delivers to every listener of the
\* event name whose endpoint is live.
C15_OnlyTargetAllOnBroadcast ==
    Sent =>
        /\ \A i \in 1..Len(lastEvent.deliveries) :
              LET to == lastEvent.deliveries[i].to
              IN  /\ lastEvent.name \in DOMAIN listeners
                  /\ \E k \in 1..Len(listeners[lastEvent.name]) :
                        listeners[lastEvent.name][k] = to
                  /\ Matching(to)
        /\ lastEvent.target = NoExtension =>
              \A w \in wanted :
                  w[1] = lastEvent.name /\ LiveAtSend(w[2])
                      => DeliveredTo(w[2])

Called == lastCall.name # "none"
CallerKnown ==
    lastCall.extensionId # NoExtension /\ lastCall.extensionId \in extensions

\* The first of the four checks that fails for the call just made.
FirstFailingCheck ==
    IF lastCall.name \notin DOMAIN handlers THEN "UnknownHandler"
    ELSE IF lastCall.remote /\ ~handlers[lastCall.name].allowRemote
    THEN "RemoteNotAllowed"
    ELSE IF ~CallerKnown /\ handlers[lastCall.name].extensionContext
    THEN "UnknownContext"
    ELSE IF /\ handlers[lastCall.name].permission # NoPermission
            /\ \/ ~CallerKnown
               \/ handlers[lastCall.name].permission
                      \notin ManifestPermissions(lastCall.extensionId)
    THEN "PermissionDenied"
    ELSE "none"

\* C16: onExtensionMessage invokes the callback of the handler exactly when
\* no check fails, and otherwise fails with the error of the first failing
\* check: unknown handler, remote not allowed, unknown caller, permission.
C16_CallbackIffChecksPass ==
    Called =>
        /\ lastCall.error = FirstFailingCheck
        /\ lastCall.invoked # NoCallback <=> lastCall.error = "none"
        /\ lastCall.invoked # NoCallback =>
              lastCall.invoked = handlers[lastCall.name].callback

\* A message for a handler that requires a permission reached its callback.
C16_Witness ==
    /\ Called
    /\ lastCall.name \in DOMAIN handlers
    /\ handlers[lastCall.name].permission # NoPermission
    /\ lastCall.invoked # NoCallback

\* C17: a second handle() for a name does not replace the handler the first
\* one registered, and a message for a name registered twice fails.
C17_ReRegistrationSurfacesAtCall ==
    /\ \A n \in DOMAIN handlers : handlers[n].callback = handleCalls[n].first
    /\ Called /\ lastCall.name \in HandlerNames =>
          (handleCalls[lastCall.name].times = 2 => lastCall.error # "none")

\* The listeners of a bucket that are not owned by extension e, in order.
RECURSIVE NotOwnedBy(_, _)
NotOwnedBy(bucket, e) ==
    IF bucket = <<>> THEN <<>>
    ELSE IF Head(bucket).extensionId = e THEN NotOwnedBy(Tail(bucket), e)
    ELSE <<Head(bucket)>> \o NotOwnedBy(Tail(bucket), e)

BucketOf(L, eventName) == IF eventName \in DOMAIN L THEN L[eventName] ELSE <<>>

\* C39: the registry holds no listener owned by an extension that is not
\* loaded, under any event name, so nothing is delivered to it; and the step
\* that unloads an extension leaves in every bucket the listeners of the
\* other extensions, in their order.
C39_UnloadedOwnerHasNoListener ==
    /\ [](\A e \in ExtensionIds \ extensions :
            /\ \A n \in DOMAIN listeners :
                  \A i \in 1..Len(listeners[n]) :
                      listeners[n][i].extensionId # e
            /\ \A i \in 1..Len(lastEvent.deliveries) :
                  lastEvent.deliveries[i].to.extensionId # e)
    /\ [][\A e \in ExtensionIds :
            ExtensionUnloaded(e) =>
                \A n \in EventNames :
                    BucketOf(listeners', n)
                        = NotOwnedBy(BucketOf(listeners, n), e)]_vars

\* An extension was just unloaded, its listeners went from two buckets, and
\* a listener of the other extension is still registered.
C39_Witness ==
    /\ lastPrune.host = NoHost
    /\ Cardinality(lastPrune.names) >= 2
    /\ extensions # ExtensionIds
    /\ listeners # EmptyMap

\* C26: every bucket of the listeners map holds at least one listener.
C26_NoEmptyBucket ==
    \A eventName \in DOMAIN listeners : Len(listeners[eventName]) > 0

\* The removeListener just executed removed the last listener of its event,
\* and the event has no bucket any more.
C26_Witness ==
    /\ lastRemoved # NoRemoval
    /\ lastRemoved[1] \notin DOMAIN listeners

\* ------------------------------------- claims about the native connection

\* The bodies of the port messages waiting in the pipe, in order.
RECURSIVE MessageBodies(_)
MessageBodies(ipc) ==
    IF ipc = <<>> THEN <<>>
    ELSE IF Head(ipc).kind = "message"
    THEN <<Head(ipc).body>> \o MessageBodies(Tail(ipc))
    ELSE MessageBodies(Tail(ipc))

\* C18: as long as the connection was not destroyed, the messages written to
\* the child, then the queued ones, then the ones still on their way are the
\* messages the extension posted, each once and in the order posted; nothing
\* is written before the child is spawned and nothing stays queued after.
C18_QueuedThenFlushedInOrder ==
    ~destroyed =>
        /\ stdin \o pending \o MessageBodies(nativeIpc)
              = [i \in 1..posted |-> i]
        /\ ~connected => stdin = <<>>
        /\ connected => pending = <<>>

\* The child got a message that had been queued and then one sent after it
\* was spawned.
C18_Witness ==
    /\ ~destroyed
    /\ connected
    /\ flushed >= 1
    /\ Len(stdin) > flushed

\* C19: when launch() searched and found no descriptor, or one that does not
\* allow the requesting origin, or an executable path that is not a regular
\* file, the connection has failed and was destroyed, and no child was ever
\* spawned.
C19_NoSpawnWithoutValidHelper ==
    ( \/ /\ launchPc \notin {"none", "config", "threw"}
         /\ \/ ~descriptor.found
            \/ RequestingOrigin \notin descriptor.allowed_origins
      \/ executable \in {"missing", "directory"} )
        => /\ launchPc = "failed"
           /\ spawns = 0
           /\ child = "none"
           /\ ~connected
           /\ destroyed

\* A descriptor that allows only another origin was read, and the launch
\* failed.
C19_Witness ==
    /\ launchPc = "failed"
    /\ descriptor.found
    /\ descriptor.allowed_origins = {"chrome-extension://extB/"}
    /\ destroyed

\* C20: once destroy() was called, no step spawns a child or leaves the
\* connection connected.
C20_ClosedStaysClosed ==
    [][destroyed => (spawns' = spawns /\ ~connected')]_vars

\* launch() ended with destroy() and without a child: no descriptor, an
\* origin that is not allowed, or no executable.
HelperUnavailable == launchPc = "failed"

\* C21: a sendNativeMessage request whose helper is unavailable is not left
\* waiting for a reply: once sendAndReceive has run on a connection whose
\* launch failed, the request is settled (rejected).
C21_UnavailableHelperRejects ==
    HelperUnavailable => request # "awaitingReply"

ValidAt(files, i) == files[i].kind = "json" /\ files[i].type = "stdio"

\* C25: once launch() has searched, the descriptor it uses is the one of the
\* first location with a structurally valid file; with none there is no
\* descriptor and the launch failed; and when that first one does not allow
\* the requesting origin the launch failed without a spawn, whatever the
\* later locations hold.
C25_FirstValidDescriptorUsed ==
    searched # <<>> =>
        LET valid == {i \in Locations : ValidAt(searched, i)} IN
        IF valid = {} THEN ~descriptor.found /\ launchPc = "failed"
        ELSE LET first == CHOOSE i \in valid : \A j \in valid : i <= j IN
             /\ descriptor.found
             /\ descriptor.allowed_origins = searched[first].allowed_origins
             /\ RequestingOrigin \notin searched[first].allowed_origins
                   => (launchPc = "failed" /\ spawns = 0)

\* The first location did not parse, the second holds a valid descriptor for
\* another origin and the third a valid one for the requesting origin: the
\* launch failed.
C25_Witness ==
    /\ searched # <<>>
    /\ searched[1].kind = "unparsable"
    /\ ValidAt(searched, 2)
    /\ RequestingOrigin \notin searched[2].allowed_origins
    /\ ValidAt(searched, 3)
    /\ RequestingOrigin \in searched[3].allowed_origins
    /\ launchPc = "failed"
\* C31: every request goes out on exactly one path: none while the worker
\* start is awaited, then either to the worker or through the router's
\* event path, never on both, a throw of the send to the worker included.
C31_OnePathPerRequest ==
    \A m \in MessageIds :
        /\ Cardinality(sentOn[m]) <= 1
        /\ sendPath[m] \in {"idle", "starting"} => sentOn[m] = {}
        /\ sendPath[m] \in {"worker", "event"} => sentOn[m] = {sendPath[m]}

C31_Witness ==
    \E m1, m2 \in MessageIds :
        /\ sentOn[m1] = {"worker"}
        /\ sentOn[m2] = {"event"}
        /\ \E v \in VersionIds : status[v] \in {"stopping", "stopped"}

\* C38: a pending request is settled only by a reply of the context it was
\* sent to: a request that went to the background worker is not resolved by
\* a 'crx-runtime-response' that a frame sent on ipcMain.
C38_OnlyTheAddresseeResolves ==
    \A m \in MessageIds :
        resolvedBy[m] = "frame" => sentOn[m] # {"worker"}

\* A step of the main process that sends onConnect for port p to the
\* responder, worker or background page.
OnConnectSent(p) ==
    LET sent(before, after) ==
            /\ Len(after) = Len(before) + 1
            /\ after[Len(after)].type = "onConnect"
            /\ after[Len(after)].port = p
    IN sent(mainToWorker, mainToWorker') \/ sent(mainToBg, mainToBg')

\* C32: onConnect is sent to the responder only while the port record is
\* still in the table: after the initiator disconnected, or the port was
\* swept, during the wait for the worker, no onConnect follows.
C32_OnConnectOnlyForLivePort ==
    [][\A p \in PortIds : OnConnectSent(p) => ports[p].present]_vars

\* Every port message or disconnect on its way to a responder follows the
\* onConnect of its port: the responder has the port already, or the
\* onConnect is ahead of it in the same channel.
AnnouncedFirst(queue, known) ==
    \A i \in 1..Len(queue) :
        queue[i].type \in {"msg", "disconnect"} =>
            \/ queue[i].port \in known
            \/ \E j \in 1..(i - 1) :
                  queue[j].type = "onConnect" /\ queue[j].port = queue[i].port

\* C33: the responder, worker or background page, never receives a port
\* message or a port disconnect of a port id before the onConnect of that
\* port id.
C33_OnConnectComesFirst ==
    /\ AnnouncedFirst(mainToBg, backgroundPorts)
    /\ AnnouncedFirst(mainToWorker, activePorts)

\* C34: every port object, NativePort, RuntimePort, BackgroundPort and
\* SWPort, runs its onDisconnect listeners at most once, however disconnect()
\* calls and disconnect notifications of the other side interleave.
C34_OnDisconnectFiresOnce ==
    \A class \in PortClasses : portObjects[class].fired <= 1

\* C35: the router is asked to deliver an event to the context exactly
\* while the context has a callback registered for it, and removing a
\* callback that was never added changes neither the count nor the
\* registration of the others.
C35_RouterFollowsLocalCallbacks ==
    /\ \A name \in LocalEvents :
          /\ routerListening[name] <=> registered[name] # <<>>
          /\ listenerMap[name] = Len(registered[name])
    /\ lastRemoval.name # "none" /\ ~lastRemoval.known =>
          lastRemoval.countAfter = lastRemoval.countBefore

\* C36: a callback that removeExtensionListener has removed is not run for
\* a later event of that name, also while another callback stays registered.
C36_RemovedCallbackNotInvoked ==
    \A i \in 1..Len(lastDelivery.ran) :
        Has(lastDelivery.registered, lastDelivery.ran[i])

\* No listener of the request answered during the dispatch or announced a
\* later answer.
Unanswered(r) ==
    /\ r.dispatched
    /\ \A i \in 1..Len(r.listeners) : r.listeners[i] \in {"nothing", "throws"}

\* C37: the worker sends at most one reply for a request, however many of
\* its listeners call sendResponse, return true or return a promise, and
\* it has replied undefined by the end of the dispatch when no listener
\* answered or announced an answer.
C37_OneReplyPerRequest ==
    \A id \in SwRequestIds :
        /\ Len(swRequests[id].replies) <= 1
        /\ Unanswered(swRequests[id]) =>
              swRequests[id].replies = <<"undefined">>

C37_Witness ==
    \E id1, id2 \in SwRequestIds :
        /\ swRequests[id1].listeners = <<"responds", "true">>
        /\ swRequests[id1].deferred = 0
        /\ swRequests[id1].replies = <<1>>
        /\ Unanswered(swRequests[id2])
        /\ Len(swRequests[id2].listeners) = MaxOnMessage

\* C40: once a sendNativeMessage request has resolved with the reply of its
\* helper, the child spawned for it no longer runs and the host holds neither
\* the process nor the sender.
C40_OneShotReleasesHelper ==
    request = "resolved" =>
        /\ child # "running"
        /\ ~process
        /\ ~sender
        /\ ~connected

\* --------------------------------------------------- claims about the framing

\* C23: the frame send() writes for a message is the UTF-8 byte length of
\* its JSON text as four little-endian bytes, followed by exactly the bytes
\* of the UTF-8 encoding of that text.
C23_FrameLengthIsByteLength ==
    sentJson # <<>> =>
        /\ Len(sentFrame) = 4 + Len(Utf8(sentJson))
        /\ readUInt32LE(sentFrame) = Len(Utf8(sentJson))
        /\ SubSeq(sentFrame, 5, Len(sentFrame)) = Utf8(sentJson)

\* C24: once every byte the child wrote has reached receive(), in whatever
\* pieces, the frames passed on are the frames written, each once and in
\* order.
C24_EveryFrameDeliveredOnce ==
    stdout = <<>> => received = [f \in 1..Len(childWrote) |-> f]

====
